---- MODULE Spec2Model ----
(***************************************************************************)
(* Message synchronization core of chatify: the message store behind the   *)
(* message controller (send, list, mark-read, delete-for-me,               *)
(* delete-for-everyone, pin/unpin), and the user -> socket registry the    *)
(* controller publishes events through.                                    *)
(*                                                                         *)
(* The state is what the server keeps between requests: the Message       *)
(* collection and the user -> socket registry.  Every request handler is   *)
(* an operator from the collection, the registry and the request to an     *)
(* Outcome: the collection after the handler, the HTTP response and the    *)
(* socket events it emitted.  An action applies one handler to inputs      *)
(* drawn from small sets and keeps the collection it leaves.  A message's  *)
(* _id is its position in the collection, which is also its creation       *)
(* order.                                                                  *)
(*                                                                         *)
(* One client is observed with the server: the browser of user Me, with    *)
(* the part of useChatStore that message traffic changes (selectedUser,    *)
(* messages, pinnedMessages, chats), its calls in flight and the socket    *)
(* events delivered to it.  A call of the client is three steps: the store *)
(* function up to its await, the handler on the server, the store function *)
(* after the await; a socket event is handled by its listener in a step of *)
(* its own.                                                                *)
(* The other users act on the server only.  Each specification below       *)
(* takes the actions of one area and leaves the variables of the others at *)
(* their initial values.                                                   *)
(***************************************************************************)
EXTENDS Integers, Sequences, FiniteSets, TLC

VARIABLES
    messages,         \* server: the Message collection
    userSocketMap,    \* server: the users with a registered socket
    inbox,            \* socket events delivered to the client and not yet dispatched
    selectedUser,     \* useChatStore.selectedUser (the peer's id, or Null)
    clientMessages,   \* useChatStore.messages
    chats,            \* useChatStore.chats: partner |-> unreadCount
    sending,          \* the client's sendMessage call in flight, if any
    marking,          \* the client's markMessagesAsRead calls in flight
    loading,          \* the client's getMessagesByUserId call in flight, if any
    fetching,         \* the client's getMyChatPartners calls in flight
    arrived,          \* history: the ids the "newMessage" listener appended to
                      \* clientMessages since the send in flight began
    pinnedMessages,   \* useChatStore.pinnedMessages
    deleting,         \* the client's deleteMessageForEveryone / deleteMessageForMe calls in flight
    pinning,          \* the client's pinMessage / unpinMessage calls in flight
    removed,          \* history: the ids a deletion took out of clientMessages
    running           \* server: the delete handlers between their findById and their save

\* What the one observed client (the browser of user Me) holds.
clientVars == <<inbox, selectedUser, clientMessages, chats, sending, marking, loading,
                fetching, arrived, pinnedMessages, deleting, pinning, removed>>

vars == <<messages, userSocketMap, inbox, selectedUser, clientMessages, chats,
          sending, marking, loading, fetching, arrived, pinnedMessages, deleting, pinning,
          removed, running>>

\* ------------------------------------------------------------------ bounds

\* Most messages the store holds in a run.
MaxMsgs == 2

\* Most socket events waiting at the client to be dispatched.
MaxInbox == 2

\* Most characters the user has in the message input.
MaxTyped == 2

\* Most entries of the client's pinned list.
MaxPinned == 2

\* Most delete requests the server has between their findById and their save.
MaxRunning == 2

\* ------------------------------------------------------------------ domains

\* The User collection: the accounts that exist (and can authenticate).
Users == {"A", "B", "C"}

\* A well-formed user id that resolves to no account.
NoUser == "ghost"

\* Request bodies of POST /send/:id: an absent field is "", a text is within
\* the schema's maxLength.  uploadOk is whether cloudinary.uploader.upload
\* resolves for the attached image.
Payloads ==
    { [text |-> "",   image |-> "",    uploadOk |-> TRUE],
      [text |-> "hi", image |-> "",    uploadOk |-> TRUE],
      [text |-> "",   image |-> "img", uploadOk |-> TRUE],
      [text |-> "",   image |-> "img", uploadOk |-> FALSE],
      [text |-> "hi", image |-> "img", uploadOk |-> TRUE],
      [text |-> "hi", image |-> "img", uploadOk |-> FALSE] }

\* The bodies the SendMessage action posts.  No handler reads a stored
\* payload, so the runs store text messages only; the handler itself is
\* examined on every body of Payloads.
SentPayloads == { p \in Payloads : p.image = "" }

\* Message ids a request can name: ids beyond the collection do not exist,
\* and the last one never does.
MessageIds == 1..(MaxMsgs + 1)

Null == "null"

Undefined == "undefined"

\* The payload of an emit with no argument: destructuring it (data || {})
\* finds no field.
NoPayload == << >>

\* ------------------------------------------------------------------ helpers

RECURSIVE SelectIds(_, _, _)
\* Message.find(filter): the ids of the matching documents from position i
\* on, in collection order.
SelectIds(msgs, matches, i) ==
    IF i > Len(msgs) THEN <<>>
    ELSE IF matches[i] THEN <<msgs[i]._id>> \o SelectIds(msgs, matches, i + 1)
    ELSE SelectIds(msgs, matches, i + 1)

RECURSIVE CountDocuments(_, _, _)
\* Message.countDocuments(filter): the number of matching documents from
\* position i on.
CountDocuments(msgs, matches, i) ==
    IF i > Len(msgs) THEN 0
    ELSE (IF matches[i] THEN 1 ELSE 0) + CountDocuments(msgs, matches, i + 1)

\* Array.prototype.includes on a deletedFor array.
Includes(arr, x) == \E k \in 1..Len(arr) : arr[k] = x

Range(s) == { s[k] : k \in 1..Len(s) }

\* res.status(code).json(body)
Reply(status, body) == [status |-> status, body |-> body]

\* io.to(socketId).emit(event, payload), addressed by the user who owns the socket.
Event(to, name, payload) == [to |-> to, event |-> name, payload |-> payload]

\* What a handler leaves behind: the collection, the response, the events.
Outcome(msgs, reply, events) == [messages |-> msgs, res |-> reply, emitted |-> events]

\* getReceiverSocketId(sockets, userId): the user's socket, if one is registered.
getReceiverSocketId(sockets, userId) == userId \in sockets

\* ------------------------------------------------------------------ queries

\* The conversation-pair clause of the find() in getMessagesByUserId.
PairClause(m, myId, userToChatId) ==
    \/ (m.senderId = myId /\ m.receiverId = userToChatId)
    \/ (m.senderId = userToChatId /\ m.receiverId = myId)

\* Faulty variant: the query with the conversation-pair clause lost (a second "$or" key
\* in the same filter object overwrites the first, as in the handler's
\* earlier revision at part_000:50-67).
getMessagesByUserId_pairClauseLost(msgs, myId, userToChatId) ==
    LET Test(m) ==
            /\ m.deletedForEveryone # TRUE
            /\ ~Includes(m.deletedFor, myId)
    IN  SelectIds(msgs, [ k \in 1..Len(msgs) |-> Test(msgs[k]) ], 1)

\* Faulty variant: the query without the deletedForEveryone clause.
getMessagesByUserId_onlyDeletedFor(msgs, myId, userToChatId) ==
    LET Test(m) ==
            /\ PairClause(m, myId, userToChatId)
            /\ ~Includes(m.deletedFor, myId)
    IN  SelectIds(msgs, [ k \in 1..Len(msgs) |-> Test(msgs[k]) ], 1)

\* GET /:id -- the ids of the messages returned to myId for the chat with userToChatId.
getMessagesByUserId(msgs, myId, userToChatId) ==
    LET Test(m) ==
            /\ PairClause(m, myId, userToChatId)
            /\ m.deletedForEveryone # TRUE
            /\ ~Includes(m.deletedFor, myId)
    IN  SelectIds(msgs, [ k \in 1..Len(msgs) |-> Test(msgs[k]) ], 1)

\* Faulty variant: partners taken from the messages the viewer can still see.
chatPartnerIds_visibleOnly(msgs, loggedInUserId) ==
    { (IF msgs[i].senderId = loggedInUserId THEN msgs[i].receiverId ELSE msgs[i].senderId) :
        i \in { j \in 1..Len(msgs) :
                  /\ msgs[j].senderId = loggedInUserId \/ msgs[j].receiverId = loggedInUserId
                  /\ msgs[j].deletedForEveryone # TRUE
                  /\ ~Includes(msgs[j].deletedFor, loggedInUserId) } }

\* GET /chats, first part: the distinct counterparts of loggedInUserId.
chatPartnerIds(msgs, loggedInUserId) ==
    { (IF msgs[i].senderId = loggedInUserId THEN msgs[i].receiverId ELSE msgs[i].senderId) :
        i \in { j \in 1..Len(msgs) :
                  msgs[j].senderId = loggedInUserId \/ msgs[j].receiverId = loggedInUserId } }

\* Faulty variant: the count without the deletedFor clause.
unreadCount_ignoresDeletedFor(msgs, loggedInUserId, partner) ==
    LET Test(m) ==
            /\ m.senderId = partner
            /\ m.receiverId = loggedInUserId
            /\ m.read = FALSE
            /\ m.deletedForEveryone # TRUE
    IN  CountDocuments(msgs, [ k \in 1..Len(msgs) |-> Test(msgs[k]) ], 1)

\* GET /chats, second part: the unread count attached to one partner.
unreadCount(msgs, loggedInUserId, partner) ==
    LET Test(m) ==
            /\ m.senderId = partner
            /\ m.receiverId = loggedInUserId
            /\ m.read = FALSE
            /\ m.deletedForEveryone # TRUE
            /\ ~Includes(m.deletedFor, loggedInUserId)
    IN  CountDocuments(msgs, [ k \in 1..Len(msgs) |-> Test(msgs[k]) ], 1)

\* GET /chats -- partner |-> unreadCount for the partners that are accounts.
getChatPartners(msgs, loggedInUserId) ==
    [ partner \in (chatPartnerIds(msgs, loggedInUserId) \cap Users) |->
        unreadCount(msgs, loggedInUserId, partner) ]

\* GET /pinned/:id -- the ids of the pinned messages of the chat that myId may
\* see.  The order of the result (newest pin first) is not modelled: pinnedAt
\* is kept as set or null.
getPinnedMessages(msgs, myId, userToChatId) ==
    LET Test(m) ==
            /\ PairClause(m, myId, userToChatId)
            /\ m.isPinned = TRUE
            /\ m.deletedForEveryone # TRUE
            /\ ~Includes(m.deletedFor, myId)
    IN  SelectIds(msgs, [ k \in 1..Len(msgs) |-> Test(msgs[k]) ], 1)

\* ------------------------------------------------------------------ handlers

\* The document sendMessage builds: new Message({senderId, receiverId, text, image}).
NewMessage(msgs, senderId, receiverId, text, image) ==
    [ _id |-> Len(msgs) + 1,
      senderId |-> senderId,
      receiverId |-> receiverId,
      text |-> text,
      image |-> IF image # "" THEN "url" ELSE "",
      deletedForEveryone |-> FALSE,
      deletedFor |-> <<>>,
      read |-> FALSE,
      isPinned |-> FALSE,
      pinnedAt |-> Null,
      pinnedBy |-> Null ]

\* Faulty variant: sendMessage without the self-message check.
sendMessage_noSelfCheck(msgs, sockets, senderId, receiverId, text, image, uploadOk) ==
    IF text = "" /\ image = ""
    THEN Outcome(msgs, Reply(400, "Message text or image is required"), <<>>)
    ELSE IF receiverId \notin Users
    THEN Outcome(msgs, Reply(404, "Receiver user not found"), <<>>)
    ELSE IF image # "" /\ ~uploadOk
    THEN Outcome(msgs, Reply(500, "Internal server error"), <<>>)
    ELSE
        LET newMessage == NewMessage(msgs, senderId, receiverId, text, image)
        IN  Outcome(Append(msgs, newMessage),
                    Reply(201, newMessage),
                    IF getReceiverSocketId(sockets, receiverId)
                    THEN << Event(receiverId, "newMessage", newMessage),
                            Event(receiverId, "unreadCountUpdate", [senderId |-> senderId]) >>
                    ELSE <<>>)

\* Faulty variant: sendMessage that also notifies the sender's socket, as
\* deleteMessageForEveryone does.
sendMessage_echoToSender(msgs, sockets, senderId, receiverId, text, image, uploadOk) ==
    IF text = "" /\ image = ""
    THEN Outcome(msgs, Reply(400, "Message text or image is required"), <<>>)
    ELSE IF senderId = receiverId
    THEN Outcome(msgs, Reply(400, "You cannot send message to yourself"), <<>>)
    ELSE IF receiverId \notin Users
    THEN Outcome(msgs, Reply(404, "Receiver user not found"), <<>>)
    ELSE IF image # "" /\ ~uploadOk
    THEN Outcome(msgs, Reply(500, "Internal server error"), <<>>)
    ELSE
        LET newMessage == NewMessage(msgs, senderId, receiverId, text, image)
        IN  Outcome(Append(msgs, newMessage),
                    Reply(201, newMessage),
                    (IF getReceiverSocketId(sockets, receiverId)
                     THEN << Event(receiverId, "newMessage", newMessage),
                             Event(receiverId, "unreadCountUpdate", [senderId |-> senderId]) >>
                     ELSE <<>>)
                    \o
                    (IF getReceiverSocketId(sockets, senderId)
                     THEN << Event(senderId, "newMessage", newMessage) >>
                     ELSE <<>>))

\* Faulty variant: sendMessage emitting to the receiver without looking up a socket.
sendMessage_noSocketLookup(msgs, sockets, senderId, receiverId, text, image, uploadOk) ==
    IF text = "" /\ image = ""
    THEN Outcome(msgs, Reply(400, "Message text or image is required"), <<>>)
    ELSE IF senderId = receiverId
    THEN Outcome(msgs, Reply(400, "You cannot send message to yourself"), <<>>)
    ELSE IF receiverId \notin Users
    THEN Outcome(msgs, Reply(404, "Receiver user not found"), <<>>)
    ELSE IF image # "" /\ ~uploadOk
    THEN Outcome(msgs, Reply(500, "Internal server error"), <<>>)
    ELSE
        LET newMessage == NewMessage(msgs, senderId, receiverId, text, image)
        IN  Outcome(Append(msgs, newMessage),
                    Reply(201, newMessage),
                    << Event(receiverId, "newMessage", newMessage),
                       Event(receiverId, "unreadCountUpdate", [senderId |-> senderId]) >>)

\* POST /send/:id
sendMessage(msgs, sockets, senderId, receiverId, text, image, uploadOk) ==
    IF text = "" /\ image = ""
    THEN Outcome(msgs, Reply(400, "Message text or image is required"), <<>>)
    ELSE IF senderId = receiverId
    THEN Outcome(msgs, Reply(400, "You cannot send message to yourself"), <<>>)
    ELSE IF receiverId \notin Users
    THEN Outcome(msgs, Reply(404, "Receiver user not found"), <<>>)
    ELSE IF image # "" /\ ~uploadOk
    THEN Outcome(msgs, Reply(500, "Internal server error"), <<>>)
    ELSE
        LET newMessage == NewMessage(msgs, senderId, receiverId, text, image)
        IN  Outcome(Append(msgs, newMessage),
                    Reply(201, newMessage),
                    IF getReceiverSocketId(sockets, receiverId)
                    THEN << Event(receiverId, "newMessage", newMessage),
                            Event(receiverId, "unreadCountUpdate", [senderId |-> senderId]) >>
                    ELSE <<>>)

\* Faulty variant: delete-for-everyone open to either participant, as delete-for-me is.
deleteMessageForEveryone_anyParticipant(msgs, sockets, userId, messageId) ==
    IF messageId > Len(msgs)
    THEN Outcome(msgs, Reply(404, "Message not found"), <<>>)
    ELSE IF msgs[messageId].senderId # userId /\ msgs[messageId].receiverId # userId
    THEN Outcome(msgs, Reply(403, "You can only delete your own messages for everyone"), <<>>)
    ELSE
        LET message == msgs[messageId]
        IN  Outcome([msgs EXCEPT ![messageId].deletedForEveryone = TRUE],
                    Reply(200, "Message deleted for everyone"),
                    (IF getReceiverSocketId(sockets, message.receiverId)
                     THEN << Event(message.receiverId, "messageDeletedForEveryone", messageId) >>
                     ELSE <<>>)
                    \o
                    (IF getReceiverSocketId(sockets, message.senderId)
                     THEN << Event(message.senderId, "messageDeletedForEveryone", messageId) >>
                     ELSE <<>>))

\* Faulty variant: the sender is notified only when the receiver was not
\* (the two lookups chained with else).
deleteMessageForEveryone_eitherOr(msgs, sockets, userId, messageId) ==
    IF messageId > Len(msgs)
    THEN Outcome(msgs, Reply(404, "Message not found"), <<>>)
    ELSE IF msgs[messageId].senderId # userId
    THEN Outcome(msgs, Reply(403, "You can only delete your own messages for everyone"), <<>>)
    ELSE
        LET message == msgs[messageId]
        IN  Outcome([msgs EXCEPT ![messageId].deletedForEveryone = TRUE],
                    Reply(200, "Message deleted for everyone"),
                    IF getReceiverSocketId(sockets, message.receiverId)
                    THEN << Event(message.receiverId, "messageDeletedForEveryone", messageId) >>
                    ELSE IF getReceiverSocketId(sockets, message.senderId)
                    THEN << Event(message.senderId, "messageDeletedForEveryone", messageId) >>
                    ELSE <<>>)

\* Faulty variant: the events are emitted and the flag is not saved.
deleteMessageForEveryone_emitsUnsaved(msgs, sockets, userId, messageId) ==
    IF messageId > Len(msgs)
    THEN Outcome(msgs, Reply(404, "Message not found"), <<>>)
    ELSE IF msgs[messageId].senderId # userId
    THEN Outcome(msgs, Reply(403, "You can only delete your own messages for everyone"), <<>>)
    ELSE
        LET message == msgs[messageId]
        IN  Outcome(msgs,
                    Reply(200, "Message deleted for everyone"),
                    (IF getReceiverSocketId(sockets, message.receiverId)
                     THEN << Event(message.receiverId, "messageDeletedForEveryone", messageId) >>
                     ELSE <<>>)
                    \o
                    (IF getReceiverSocketId(sockets, message.senderId)
                     THEN << Event(message.senderId, "messageDeletedForEveryone", messageId) >>
                     ELSE <<>>))

\* DELETE /delete-for-everyone/:id
deleteMessageForEveryone(msgs, sockets, userId, messageId) ==
    IF messageId > Len(msgs)
    THEN Outcome(msgs, Reply(404, "Message not found"), <<>>)
    ELSE IF msgs[messageId].senderId # userId
    THEN Outcome(msgs, Reply(403, "You can only delete your own messages for everyone"), <<>>)
    ELSE
        LET message == msgs[messageId]
        IN  Outcome([msgs EXCEPT ![messageId].deletedForEveryone = TRUE],
                    Reply(200, "Message deleted for everyone"),
                    (IF getReceiverSocketId(sockets, message.receiverId)
                     THEN << Event(message.receiverId, "messageDeletedForEveryone", messageId) >>
                     ELSE <<>>)
                    \o
                    (IF getReceiverSocketId(sockets, message.senderId)
                     THEN << Event(message.senderId, "messageDeletedForEveryone", messageId) >>
                     ELSE <<>>))

\* Faulty variant: delete-for-me without the already-deleted check.
deleteMessageForMe_noAlreadyCheck(msgs, userId, messageId) ==
    IF messageId > Len(msgs)
    THEN Outcome(msgs, Reply(404, "Message not found"), <<>>)
    ELSE IF msgs[messageId].senderId # userId /\ msgs[messageId].receiverId # userId
    THEN Outcome(msgs, Reply(403, "You are not part of this conversation"), <<>>)
    ELSE Outcome([msgs EXCEPT ![messageId].deletedFor = Append(@, userId)],
                 Reply(200, "Message deleted for you"),
                 <<>>)

\* Faulty variant: delete-for-me announced to the other participant the way
\* delete-for-everyone is.
deleteMessageForMe_notifiesPeer(msgs, userId, messageId) ==
    IF messageId > Len(msgs)
    THEN Outcome(msgs, Reply(404, "Message not found"), <<>>)
    ELSE IF msgs[messageId].senderId # userId /\ msgs[messageId].receiverId # userId
    THEN Outcome(msgs, Reply(403, "You are not part of this conversation"), <<>>)
    ELSE IF Includes(msgs[messageId].deletedFor, userId)
    THEN Outcome(msgs, Reply(400, "Message already deleted for you"), <<>>)
    ELSE Outcome([msgs EXCEPT ![messageId].deletedFor = Append(@, userId)],
                 Reply(200, "Message deleted for you"),
                 << Event((IF msgs[messageId].senderId = userId
                           THEN msgs[messageId].receiverId
                           ELSE msgs[messageId].senderId),
                          "messageDeletedForEveryone", messageId) >>)

\* DELETE /delete-for-me/:id
deleteMessageForMe(msgs, userId, messageId) ==
    IF messageId > Len(msgs)
    THEN Outcome(msgs, Reply(404, "Message not found"), <<>>)
    ELSE IF msgs[messageId].senderId # userId /\ msgs[messageId].receiverId # userId
    THEN Outcome(msgs, Reply(403, "You are not part of this conversation"), <<>>)
    ELSE IF Includes(msgs[messageId].deletedFor, userId)
    THEN Outcome(msgs, Reply(400, "Message already deleted for you"), <<>>)
    ELSE Outcome([msgs EXCEPT ![messageId].deletedFor = Append(@, userId)],
                 Reply(200, "Message deleted for you"),
                 <<>>)

\* Faulty variant: the filter without read: false.
MarkReadFilter_noReadClause(m, myId, userToChatId) ==
    m.senderId = userToChatId /\ m.receiverId = myId

\* Faulty variant: the filter matching the conversation in both directions.
MarkReadFilter_bothDirections(m, myId, userToChatId) ==
    PairClause(m, myId, userToChatId) /\ m.read = FALSE

\* Faulty variant: the filter without the sender clause.
MarkReadFilter_anySender(m, myId, userToChatId) ==
    m.receiverId = myId /\ m.read = FALSE

\* The filter of the updateMany in markMessagesAsRead.
MarkReadFilter(m, myId, userToChatId) ==
    m.senderId = userToChatId /\ m.receiverId = myId /\ m.read = FALSE

\* result.modifiedCount of that updateMany.
modifiedCount(msgs, myId, userToChatId) ==
    LET Test(m) == MarkReadFilter(m, myId, userToChatId)
    IN  CountDocuments(msgs, [ k \in 1..Len(msgs) |-> Test(msgs[k]) ], 1)

\* Faulty variant: the read receipt goes to the reader's own socket.
markMessagesAsRead_notifiesReader(msgs, sockets, myId, userToChatId) ==
    LET Test(m) == MarkReadFilter(m, myId, userToChatId)
        updated == [ i \in 1..Len(msgs) |->
                       IF Test(msgs[i]) THEN [msgs[i] EXCEPT !.read = TRUE] ELSE msgs[i] ]
    IN  Outcome(updated,
                Reply(200, "Messages marked as read"),
                IF modifiedCount(msgs, myId, userToChatId) > 0 /\ getReceiverSocketId(sockets, myId)
                THEN << Event(myId, "messagesRead", [readBy |-> myId]),
                        Event(myId, "unreadCountUpdate", NoPayload) >>
                ELSE <<>>)

\* PATCH /mark-read/:id
markMessagesAsRead(msgs, sockets, myId, userToChatId) ==
    LET Test(m) == MarkReadFilter(m, myId, userToChatId)
        updated == [ i \in 1..Len(msgs) |->
                       IF Test(msgs[i]) THEN [msgs[i] EXCEPT !.read = TRUE] ELSE msgs[i] ]
    IN  Outcome(updated,
                Reply(200, "Messages marked as read"),
                IF modifiedCount(msgs, myId, userToChatId) > 0 /\ getReceiverSocketId(sockets, userToChatId)
                THEN << Event(userToChatId, "messagesRead", [readBy |-> myId]),
                        Event(userToChatId, "unreadCountUpdate", NoPayload) >>
                ELSE <<>>)

\* The two events of a pin or unpin: one to each participant that is connected.
ToBoth(sockets, message, name, payload) ==
    (IF getReceiverSocketId(sockets, message.receiverId)
     THEN << Event(message.receiverId, name, payload) >> ELSE <<>>)
    \o
    (IF getReceiverSocketId(sockets, message.senderId)
     THEN << Event(message.senderId, name, payload) >> ELSE <<>>)

\* PATCH /pin/:id
pinMessage(msgs, sockets, userId, messageId) ==
    IF messageId > Len(msgs)
    THEN Outcome(msgs, Reply(404, "Message not found"), <<>>)
    ELSE IF msgs[messageId].senderId # userId /\ msgs[messageId].receiverId # userId
    THEN Outcome(msgs, Reply(403, "You are not part of this conversation"), <<>>)
    ELSE
        LET message == msgs[messageId]
            pinned == IF message.isPinned THEN message
                      ELSE [message EXCEPT !.isPinned = TRUE, !.pinnedAt = "now", !.pinnedBy = userId]
        IN  Outcome([msgs EXCEPT ![messageId] = pinned],
                    Reply(200, pinned),
                    ToBoth(sockets, message, "messagePinned", pinned))

\* Faulty variant: only the user who pinned the message may unpin it.
unpinMessage_pinnerOnly(msgs, sockets, userId, messageId) ==
    IF messageId > Len(msgs)
    THEN Outcome(msgs, Reply(404, "Message not found"), <<>>)
    ELSE IF msgs[messageId].pinnedBy # userId
    THEN Outcome(msgs, Reply(403, "You are not part of this conversation"), <<>>)
    ELSE
        LET message == msgs[messageId]
            unpinned == [message EXCEPT !.isPinned = FALSE, !.pinnedAt = Null, !.pinnedBy = Null]
        IN  Outcome([msgs EXCEPT ![messageId] = unpinned],
                    Reply(200, unpinned),
                    ToBoth(sockets, message, "messageUnpinned", messageId))

\* PATCH /unpin/:id
unpinMessage(msgs, sockets, userId, messageId) ==
    IF messageId > Len(msgs)
    THEN Outcome(msgs, Reply(404, "Message not found"), <<>>)
    ELSE IF msgs[messageId].senderId # userId /\ msgs[messageId].receiverId # userId
    THEN Outcome(msgs, Reply(403, "You are not part of this conversation"), <<>>)
    ELSE
        LET message == msgs[messageId]
            unpinned == [message EXCEPT !.isPinned = FALSE, !.pinnedAt = Null, !.pinnedBy = Null]
        IN  Outcome([msgs EXCEPT ![messageId] = unpinned],
                    Reply(200, unpinned),
                    ToBoth(sockets, message, "messageUnpinned", messageId))

\* ------------------------------------------------------------------ the delete handlers, step by step

\* Faulty variant: save() writes the whole document as the handler holds it.
saveDeletedForEveryone_wholeDocument(msgs, message) ==
    [msgs EXCEPT ![message._id] = message]

\* await message.save() of deleteMessageForEveryone: the document `message`
\* was read by findById and had deletedForEveryone assigned; save() writes
\* the paths that were modified, here $set deletedForEveryone.
saveDeletedForEveryone(msgs, message) ==
    [msgs EXCEPT ![message._id].deletedForEveryone = message.deletedForEveryone]

\* Faulty variant: save() writes the whole document as the handler holds it.
saveDeletedFor_wholeDocument(msgs, message, pushed) ==
    [msgs EXCEPT ![message._id] = message]

\* await message.save() of deleteMessageForMe: the document `message` was
\* read by findById and had `pushed` pushed onto deletedFor; save() writes
\* the modification of the array, a $push of what was pushed.
saveDeletedFor(msgs, message, pushed) ==
    [msgs EXCEPT ![message._id].deletedFor = @ \o pushed]

\* The request ids the server has free: a request takes the least of them.
FreeRequests ==
    LET free == (1..MaxRunning) \ { r.id : r \in running }
    IN  { i \in free : \A j \in free : i <= j }

\* ------------------------------------------------------------------ the client

\* The user whose browser is observed, and the users they can chat with.
Me == "A"

Peers == Users \ {Me}

\* `temp-${Date.now()}`: an id no stored message has.
TempId == 0

\* A message as the client keeps it in useChatStore.messages: the fields of
\* the document that the store's functions read, and the optimistic tag
\* (absent, so falsy, on a document of the server).
ToClient(m) ==
    [ _id |-> m._id,
      senderId |-> m.senderId,
      receiverId |-> m.receiverId,
      text |-> m.text,
      read |-> m.read,
      isPinned |-> m.isPinned,
      isOptimistic |-> FALSE ]

\* res.data of GET /:id: the documents the query selects.
Documents(msgs, ids) == [ k \in 1..Len(ids) |-> ToClient(msgs[ids[k]]) ]

\* The optimisticMessage of useChatStore.sendMessage.
optimisticMessage(authUserId, receiverId, text) ==
    [ _id |-> TempId,
      senderId |-> authUserId,
      receiverId |-> receiverId,
      text |-> text,
      read |-> FALSE,
      isPinned |-> FALSE,
      isOptimistic |-> TRUE ]

\* Faulty variant: the created document appended behind the optimistic entry,
\* which stays.
sendMessage_resolved_keepsOptimistic(captured, data) ==
    captured \o << optimisticMessage(data.senderId, data.receiverId, data.text) >>
             \o << ToClient(data) >>

\* useChatStore.sendMessage after the POST resolved: the list captured
\* before the call, with the created document appended.
sendMessage_resolved(captured, data) == captured \o << ToClient(data) >>

\* useChatStore.sendMessage after the POST rejected: the list captured before
\* the call.
sendMessage_rejected(captured) == captured

\* socket.on("newMessage") of subscribeToMessages; sel is the selectedUser
\* the subscription captured.
on_newMessage(sel, list, newMessage) ==
    IF newMessage.senderId # sel THEN list
    ELSE Append(list, ToClient(newMessage))

\* Faulty variant: the listener empties the list.
on_messageDeletedForEveryone_clearsList(list, messageId) == <<>>

\* socket.on("messageDeletedForEveryone"): what it leaves of a list (messages
\* and pinnedMessages alike).
on_messageDeletedForEveryone(list, messageId) ==
    SelectSeq(list, LAMBDA msg : msg._id # messageId)

\* Faulty variant: every unread entry is marked, whoever its receiver is.
on_messagesRead_everyEntry(sel, list, data) ==
    IF data.readBy = sel
    THEN [ i \in 1..Len(list) |->
             IF ~list[i].read
             THEN [list[i] EXCEPT !.read = TRUE]
             ELSE list[i] ]
    ELSE list

\* socket.on("messagesRead")
on_messagesRead(sel, list, data) ==
    IF data.readBy = sel
    THEN [ i \in 1..Len(list) |->
             IF list[i].receiverId = data.readBy /\ ~list[i].read
             THEN [list[i] EXCEPT !.read = TRUE]
             ELSE list[i] ]
    ELSE list

\* Faulty variant: the counter only ever counts up; a reset is ignored.
updateUnreadCount_incrementOnly(cs, userId, increment) ==
    [ c \in DOMAIN cs |->
        IF c = userId /\ increment THEN cs[c] + 1 ELSE cs[c] ]

\* useChatStore.updateUnreadCount
updateUnreadCount(cs, userId, increment) ==
    [ c \in DOMAIN cs |->
        IF c = userId
        THEN (IF increment THEN cs[c] + 1 ELSE 0)
        ELSE cs[c] ]

\* Faulty variant: the listener without the check on the open conversation.
handleUnreadUpdate_alwaysIncrements(sel, cs, data) ==
    LET senderId == IF "senderId" \in DOMAIN data THEN data.senderId ELSE Undefined
    IN  IF senderId # Undefined THEN updateUnreadCount(cs, senderId, TRUE) ELSE cs

\* Faulty variant: a payload without senderId counts for every partner.
handleUnreadUpdate_noSenderCountsAll(sel, cs, data) ==
    LET senderId == IF "senderId" \in DOMAIN data THEN data.senderId ELSE Undefined
    IN  IF senderId = Undefined
        THEN [ c \in DOMAIN cs |-> cs[c] + 1 ]
        ELSE IF sel = Null \/ sel # senderId
        THEN updateUnreadCount(cs, senderId, TRUE)
        ELSE cs

\* handleUnreadUpdate of ChatPage, the listener of "unreadCountUpdate".
handleUnreadUpdate(sel, cs, data) ==
    LET senderId == IF "senderId" \in DOMAIN data THEN data.senderId ELSE Undefined
    IN  IF sel = Null \/ sel # senderId
        THEN (IF senderId # Undefined THEN updateUnreadCount(cs, senderId, TRUE) ELSE cs)
        ELSE cs

\* useChatStore.markMessagesAsRead after the PATCH was rejected: the catch
\* logs the error and sets nothing.
markMessagesAsRead_rejected(cs) == cs

\* useChatStore.markMessagesAsRead after the PATCH resolved.
markMessagesAsRead_resolved(list, userId) ==
    [ i \in 1..Len(list) |->
        IF list[i].senderId = userId /\ ~list[i].read
        THEN [list[i] EXCEPT !.read = TRUE]
        ELSE list[i] ]

\* useChatStore.markMessagesAsRead(userId) up to its await: the PATCH is in
\* flight.  Identical calls in flight are kept as one.
markMessagesAsRead_sent(mk, userId) == mk \cup { [userId |-> userId, stage |-> "sent"] }

\* handleTextChange of MessageInput (after setText): what it leaves of the
\* calls in flight and of the counters when the input holds `length` characters.
handleTextChange(sel, mk, cs, length) ==
    IF sel # Null /\ length = 1
    THEN [ marking |-> markMessagesAsRead_sent(mk, sel),
           chats |-> updateUnreadCount(cs, sel, FALSE) ]
    ELSE [ marking |-> mk, chats |-> cs ]

\* handleChatContainerClick of ChatContainer.
handleChatContainerClick(sel, mk, cs) ==
    IF sel # Null
    THEN [ marking |-> markMessagesAsRead_sent(mk, sel),
           chats |-> updateUnreadCount(cs, sel, FALSE) ]
    ELSE [ marking |-> mk, chats |-> cs ]

\* useChatStore.deleteMessageForEveryone after the DELETE resolved: what it
\* leaves of a list (messages and pinnedMessages alike).
deleteMessageForEveryone_resolved(list, messageId) ==
    SelectSeq(list, LAMBDA msg : msg._id # messageId)

\* useChatStore.deleteMessageForMe after the DELETE resolved, likewise.
deleteMessageForMe_resolved(list, messageId) ==
    SelectSeq(list, LAMBDA msg : msg._id # messageId)

\* socket.on("messagePinned"): the two lists it sets.
on_messagePinned(list, pinned, pinnedMessage) ==
    [ messages |-> [ i \in 1..Len(list) |->
                       IF list[i]._id = pinnedMessage._id THEN ToClient(pinnedMessage)
                       ELSE list[i] ],
      pinnedMessages |-> << ToClient(pinnedMessage) >> \o pinned ]

\* socket.on("messageUnpinned"): the two lists it sets.
on_messageUnpinned(list, pinned, messageId) ==
    [ messages |-> [ i \in 1..Len(list) |->
                       IF list[i]._id = messageId THEN [list[i] EXCEPT !.isPinned = FALSE]
                       ELSE list[i] ],
      pinnedMessages |-> SelectSeq(pinned, LAMBDA msg : msg._id # messageId) ]

\* Faulty variant: the pinned record is added at the end of the pinned list.
pinMessage_resolved_atTheEnd(list, pinned, messageId, data) ==
    [ messages |-> [ i \in 1..Len(list) |->
                       IF list[i]._id = messageId THEN ToClient(data) ELSE list[i] ],
      pinnedMessages |-> pinned \o << ToClient(data) >> ]

\* useChatStore.pinMessage after the PATCH resolved with data: the two lists
\* it sets.
pinMessage_resolved(list, pinned, messageId, data) ==
    [ messages |-> [ i \in 1..Len(list) |->
                       IF list[i]._id = messageId THEN ToClient(data) ELSE list[i] ],
      pinnedMessages |-> << ToClient(data) >> \o pinned ]

\* useChatStore.unpinMessage after the PATCH resolved with data: the two
\* lists it sets.
unpinMessage_resolved(list, pinned, messageId, data) ==
    [ messages |-> [ i \in 1..Len(list) |->
                       IF list[i]._id = messageId THEN ToClient(data) ELSE list[i] ],
      pinnedMessages |-> SelectSeq(pinned, LAMBDA msg : msg._id # messageId) ]

\* The events of a handler that reach the observed client's socket.
ToMe(emitted) == SelectSeq(emitted, LAMBDA e : e.to = Me)

\* A request that does not reach its handler, or whose handler throws.
Failed(msgs) == Outcome(msgs, Reply(500, "Internal server error"), <<>>)

\* ------------------------------------------------------------------ state machine

Init ==
    /\ messages = <<>>
    /\ userSocketMap = {}
    /\ inbox = <<>>
    /\ selectedUser = Null
    /\ clientMessages = <<>>
    /\ chats = <<>>
    /\ sending = {}
    /\ marking = {}
    /\ loading = {}
    /\ fetching = {}
    /\ arrived = {}
    /\ pinnedMessages = <<>>
    /\ deleting = {}
    /\ pinning = {}
    /\ removed = {}
    /\ running = {}

\* socket "connection": userSocketMap[userId] = socket.id
Connect ==
    \E u \in Users :
        /\ u \notin userSocketMap
        /\ userSocketMap' = userSocketMap \cup {u}
        /\ UNCHANGED <<messages, running, clientVars>>

\* socket "disconnect": delete userSocketMap[userId]
Disconnect ==
    \E u \in userSocketMap :
        /\ userSocketMap' = userSocketMap \ {u}
        /\ UNCHANGED <<messages, running, clientVars>>

\* A request handler runs: the collection it leaves is the next state, and the
\* registry is untouched.  The store holds at most MaxMsgs messages.
SendMessage ==
    \E senderId \in Users, receiverId \in Users \cup {NoUser}, p \in SentPayloads :
        LET o == sendMessage(messages, userSocketMap, senderId, receiverId, p.text, p.image, p.uploadOk)
        IN  /\ Len(o.messages) <= MaxMsgs
            /\ messages' = o.messages
            /\ UNCHANGED <<userSocketMap, running, clientVars>>

DeleteMessageForEveryone ==
    \E userId \in Users, messageId \in MessageIds :
        /\ messages' = deleteMessageForEveryone(messages, userSocketMap, userId, messageId).messages
        /\ UNCHANGED <<userSocketMap, running, clientVars>>

DeleteMessageForMe ==
    \E userId \in Users, messageId \in MessageIds :
        /\ messages' = deleteMessageForMe(messages, userId, messageId).messages
        /\ UNCHANGED <<userSocketMap, running, clientVars>>

MarkMessagesAsRead ==
    \E myId \in Users, userToChatId \in Users :
        /\ messages' = markMessagesAsRead(messages, userSocketMap, myId, userToChatId).messages
        /\ UNCHANGED <<userSocketMap, running, clientVars>>

PinMessage ==
    \E userId \in Users, messageId \in MessageIds :
        /\ messages' = pinMessage(messages, userSocketMap, userId, messageId).messages
        /\ UNCHANGED <<userSocketMap, running, clientVars>>

UnpinMessage ==
    \E userId \in Users, messageId \in MessageIds :
        /\ messages' = unpinMessage(messages, userSocketMap, userId, messageId).messages
        /\ UNCHANGED <<userSocketMap, running, clientVars>>

\* ------------------------------------------------------------------ the delete handlers, step by step

\* deleteMessageForEveryone up to await message.save(): findById, the two
\* checks (a request they refuse is answered at once and changes nothing),
\* and the assignment to the document in memory.
FindForDeleteForEveryone ==
    \E userId \in Users, messageId \in 1..Len(messages), id \in FreeRequests :
        /\ deleteMessageForEveryone(messages, userSocketMap, userId, messageId).res.status = 200
        /\ running' = running \cup
                        { [ id |-> id, op |-> "deleteForEveryone", userId |-> userId,
                            message |-> [messages[messageId] EXCEPT !.deletedForEveryone = TRUE],
                            pushed |-> <<>> ] }
        /\ UNCHANGED <<messages, userSocketMap, clientVars>>

\* deleteMessageForMe up to await message.save(): findById, the three
\* checks, and the push onto the document in memory.
FindForDeleteForMe ==
    \E userId \in Users, messageId \in 1..Len(messages), id \in FreeRequests :
        /\ deleteMessageForMe(messages, userId, messageId).res.status = 200
        /\ running' = running \cup
                        { [ id |-> id, op |-> "deleteForMe", userId |-> userId,
                            message |-> [messages[messageId] EXCEPT
                                           !.deletedFor = Append(@, userId)],
                            pushed |-> << userId >> ] }
        /\ UNCHANGED <<messages, userSocketMap, clientVars>>

\* What the save of a running request leaves of the collection.
Saved(msgs, r) ==
    IF r.op = "deleteForEveryone"
    THEN saveDeletedForEveryone(msgs, r.message)
    ELSE saveDeletedFor(msgs, r.message, r.pushed)

\* await message.save() of a running delete request, and the rest of the
\* handler (the emits of delete-for-everyone, the 200).
SaveMessage ==
    \E r \in running :
        LET emitted == IF r.op = "deleteForEveryone"
                       THEN deleteMessageForEveryone(messages, userSocketMap, r.userId, r.message._id).emitted
                       ELSE <<>>
        IN  /\ Len(inbox) + Len(ToMe(emitted)) <= MaxInbox
            /\ messages' = Saved(messages, r)
            /\ inbox' = inbox \o ToMe(emitted)
            /\ running' = running \ {r}
            /\ UNCHANGED <<userSocketMap, selectedUser, clientMessages, chats, sending, marking, loading,
                           fetching, arrived, pinnedMessages, deleting, pinning, removed>>

\* ------------------------------------------------------------------ the client's socket and its peers

\* The client's socket connects: userSocketMap[Me] = socket.id
ClientConnect ==
    /\ Me \notin userSocketMap
    /\ userSocketMap' = userSocketMap \cup {Me}
    /\ UNCHANGED <<messages, running, clientVars>>

\* The client's socket disconnects: delete userSocketMap[Me]
ClientDisconnect ==
    /\ Me \in userSocketMap
    /\ userSocketMap' = userSocketMap \ {Me}
    /\ UNCHANGED <<messages, running, clientVars>>

\* A handler ran for somebody's request: the collection it leaves is stored
\* and the events it emitted to the client's socket wait in the inbox.
Served(o) ==
    /\ Len(inbox) + Len(ToMe(o.emitted)) <= MaxInbox
    /\ messages' = o.messages
    /\ inbox' = inbox \o ToMe(o.emitted)
    /\ UNCHANGED <<userSocketMap, running>>

\* A peer posts a message to Me.
PeerSendMessage ==
    \E senderId \in Peers, p \in SentPayloads :
        LET o == sendMessage(messages, userSocketMap, senderId, Me, p.text, p.image, p.uploadOk)
        IN  /\ Len(o.messages) <= MaxMsgs
            /\ Served(o)
            /\ UNCHANGED <<selectedUser, clientMessages, chats, sending, marking, loading, fetching, arrived,
                           pinnedMessages, deleting, pinning, removed, running>>

\* A peer deletes a message for everyone.
PeerDeleteMessageForEveryone ==
    \E userId \in Peers, messageId \in MessageIds :
        /\ Served(deleteMessageForEveryone(messages, userSocketMap, userId, messageId))
        /\ UNCHANGED <<selectedUser, clientMessages, chats, sending, marking, loading, fetching, arrived,
                       pinnedMessages, deleting, pinning, removed, running>>

\* A peer deletes a message for themselves.
PeerDeleteMessageForMe ==
    \E userId \in Peers, messageId \in MessageIds :
        /\ Served(deleteMessageForMe(messages, userId, messageId))
        /\ UNCHANGED <<selectedUser, clientMessages, chats, sending, marking, loading, fetching, arrived,
                       pinnedMessages, deleting, pinning, removed, running>>

\* A peer marks the messages of Me as read.
PeerMarkMessagesAsRead ==
    \E myId \in Peers :
        /\ Served(markMessagesAsRead(messages, userSocketMap, myId, Me))
        /\ UNCHANGED <<selectedUser, clientMessages, chats, sending, marking, loading, fetching, arrived,
                       pinnedMessages, deleting, pinning, removed, running>>

\* ------------------------------------------------------------------ the client's socket listeners

\* "newMessage": the listener of subscribeToMessages, registered while a
\* conversation is open.
OnNewMessage ==
    /\ inbox # <<>>
    /\ Head(inbox).event = "newMessage"
    /\ inbox' = Tail(inbox)
    /\ clientMessages' = IF selectedUser = Null THEN clientMessages
                         ELSE on_newMessage(selectedUser, clientMessages, Head(inbox).payload)
    /\ arrived' = IF sending # {} /\ clientMessages' # clientMessages
                  THEN arrived \cup {Head(inbox).payload._id}
                  ELSE arrived
    /\ UNCHANGED <<messages, userSocketMap, selectedUser, chats, sending, marking, loading, fetching,
                   pinnedMessages, deleting, pinning, removed, running>>

\* "unreadCountUpdate": the listener of ChatPage.
OnUnreadCountUpdate ==
    /\ inbox # <<>>
    /\ Head(inbox).event = "unreadCountUpdate"
    /\ inbox' = Tail(inbox)
    /\ chats' = handleUnreadUpdate(selectedUser, chats, Head(inbox).payload)
    /\ UNCHANGED <<messages, userSocketMap, selectedUser, clientMessages, sending, marking, loading, fetching, arrived,
                   pinnedMessages, deleting, pinning, removed, running>>

\* "messageDeletedForEveryone"
OnMessageDeletedForEveryone ==
    /\ inbox # <<>>
    /\ Head(inbox).event = "messageDeletedForEveryone"
    /\ inbox' = Tail(inbox)
    /\ clientMessages' = IF selectedUser = Null THEN clientMessages
                         ELSE on_messageDeletedForEveryone(clientMessages, Head(inbox).payload)
    /\ pinnedMessages' = IF selectedUser = Null THEN pinnedMessages
                         ELSE on_messageDeletedForEveryone(pinnedMessages, Head(inbox).payload)
    /\ removed' = IF clientMessages' # clientMessages
                  THEN removed \cup {Head(inbox).payload}
                  ELSE removed
    /\ UNCHANGED <<messages, userSocketMap, selectedUser, chats, sending, marking, loading, fetching, arrived,
                   deleting, pinning, running>>

\* "messagesRead"
OnMessagesRead ==
    /\ inbox # <<>>
    /\ Head(inbox).event = "messagesRead"
    /\ inbox' = Tail(inbox)
    /\ clientMessages' = IF selectedUser = Null THEN clientMessages
                         ELSE on_messagesRead(selectedUser, clientMessages, Head(inbox).payload)
    /\ UNCHANGED <<messages, userSocketMap, selectedUser, chats, sending, marking, loading, fetching, arrived,
                   pinnedMessages, deleting, pinning, removed, running>>

\* ------------------------------------------------------------------ the client's user and its requests

\* getMyChatPartners() up to its await: the GET is in flight.  Identical
\* calls in flight are kept as one.
ChatPartnersSent == fetching \cup { [stage |-> "sent", data |-> << >>] }

\* The user opens the conversation with p: setSelectedUser(p), then the
\* effect of ChatContainer on selectedUser._id.  One getMessagesByUserId is in
\* flight at a time.
SelectUser ==
    \E p \in Peers :
        /\ p # selectedUser
        /\ loading = {}
        /\ selectedUser' = p
        /\ clientMessages' = <<>>
        /\ loading' = { [userId |-> p, stage |-> "sent", data |-> <<>>] }
        /\ marking' = markMessagesAsRead_sent(marking, p)
        /\ chats' = updateUnreadCount(chats, p, FALSE)
        /\ UNCHANGED <<messages, userSocketMap, inbox, sending, fetching, arrived,
                       pinnedMessages, deleting, pinning, removed, running>>

\* The user types or deletes a character in the message input, which then
\* holds `length` characters.
HandleTextChange ==
    \E length \in 0..MaxTyped :
        /\ selectedUser # Null
        /\ marking' = handleTextChange(selectedUser, marking, chats, length).marking
        /\ chats' = handleTextChange(selectedUser, marking, chats, length).chats
        /\ UNCHANGED <<messages, userSocketMap, inbox, selectedUser, clientMessages,
                       sending, loading, fetching, arrived,
                       pinnedMessages, deleting, pinning, removed, running>>

\* The user clicks into the open conversation.
HandleChatContainerClick ==
    /\ selectedUser # Null
    /\ marking' = handleChatContainerClick(selectedUser, marking, chats).marking
    /\ chats' = handleChatContainerClick(selectedUser, marking, chats).chats
    /\ UNCHANGED <<messages, userSocketMap, inbox, selectedUser, clientMessages,
                   sending, loading, fetching, arrived, pinnedMessages, deleting, pinning, removed, running>>

\* The chat list mounts: getMyChatPartners().
GetMyChatPartners ==
    /\ fetching' = ChatPartnersSent
    /\ fetching' # fetching
    /\ UNCHANGED <<messages, userSocketMap, inbox, selectedUser, clientMessages, chats,
                   sending, marking, loading, arrived, pinnedMessages, deleting, pinning, removed, running>>

\* useChatStore.sendMessage up to its await: the optimistic entry is shown
\* and the POST is in flight.  One send is in flight at a time.
ClientSendMessage ==
    /\ selectedUser # Null
    /\ sending = {}
    /\ sending' = { [ stage |-> "sent", receiverId |-> selectedUser, text |-> "hi",
                      messages |-> clientMessages, res |-> Reply(0, "") ] }
    /\ clientMessages' = Append(clientMessages, optimisticMessage(Me, selectedUser, "hi"))
    /\ arrived' = {}
    /\ UNCHANGED <<messages, userSocketMap, inbox, selectedUser, chats, marking, loading,
                   fetching, pinnedMessages, deleting, pinning, removed, running>>

\* useChatStore.sendMessage up to its await, called while the send before it
\* is in flight (MessageInput does not wait for a send to end): the captured
\* list holds the optimistic entry of that send, and Date.now() has moved on,
\* so the new optimistic entry has a temporary id of its own.  The list
\* holds at most MaxMsgs entries when it is called.
ClientSendMessageAgain ==
    /\ selectedUser # Null
    /\ Cardinality(sending) = 1
    /\ Len(clientMessages) <= MaxMsgs
    /\ sending' = sending \cup
                    { [ stage |-> "sent", receiverId |-> selectedUser, text |-> "hi",
                        messages |-> clientMessages, res |-> Reply(0, "") ] }
    /\ clientMessages' = Append(clientMessages,
                                [optimisticMessage(Me, selectedUser, "hi") EXCEPT !._id = TempId - 1])
    /\ UNCHANGED <<messages, userSocketMap, inbox, selectedUser, chats, marking, loading,
                   fetching, arrived, pinnedMessages, deleting, pinning, removed, running>>

\* The client's POST /send/:id is handled, or fails.
ServeSendMessage ==
    \E call \in sending, ok \in BOOLEAN :
        /\ call.stage = "sent"
        /\ LET o == IF ok
                    THEN sendMessage(messages, userSocketMap, Me, call.receiverId,
                                     call.text, "", TRUE)
                    ELSE Failed(messages)
           IN  /\ Len(o.messages) <= MaxMsgs
               /\ Served(o)
               /\ sending' = (sending \ {call}) \cup
                             { [call EXCEPT !.stage = "answered", !.res = o.res] }
        /\ UNCHANGED <<selectedUser, clientMessages, chats, marking, loading, fetching, arrived,
                       pinnedMessages, deleting, pinning, removed, running>>

\* useChatStore.sendMessage after its await.
SendMessageResponse ==
    \E call \in sending :
        /\ call.stage = "answered"
        /\ clientMessages' = IF call.res.status = 201
                             THEN sendMessage_resolved(call.messages, call.res.body)
                             ELSE sendMessage_rejected(call.messages)
        /\ sending' = sending \ {call}
        /\ arrived' = {}
        /\ UNCHANGED <<messages, userSocketMap, inbox, selectedUser, chats, marking, loading,
                   fetching, pinnedMessages, deleting, pinning, removed, running>>

\* A PATCH /mark-read/:id of the client is handled, or fails (the client
\* only logs a failure).
ServeMarkRead ==
    \E r \in marking, ok \in BOOLEAN :
        /\ r.stage = "sent"
        /\ IF ok
           THEN /\ Served(markMessagesAsRead(messages, userSocketMap, Me, r.userId))
                /\ marking' = (marking \ {r}) \cup { [r EXCEPT !.stage = "resolved"] }
           ELSE /\ marking' = marking \ {r}
                /\ UNCHANGED <<messages, userSocketMap, inbox>>
        /\ chats' = IF ok THEN chats ELSE markMessagesAsRead_rejected(chats)
        /\ UNCHANGED <<selectedUser, clientMessages, sending, loading, fetching, arrived,
                       pinnedMessages, deleting, pinning, removed, running>>

\* useChatStore.markMessagesAsRead after its await.
MarkReadResponse ==
    \E r \in marking :
        /\ r.stage = "resolved"
        /\ clientMessages' = markMessagesAsRead_resolved(clientMessages, r.userId)
        /\ marking' = marking \ {r}
        /\ fetching' = ChatPartnersSent
        /\ UNCHANGED <<messages, userSocketMap, inbox, selectedUser, chats, sending, loading, arrived,
                       pinnedMessages, deleting, pinning, removed, running>>

\* A GET /chats of the client is handled, or fails (the client only shows a toast).
ServeGetChatPartners ==
    \E f \in fetching, ok \in BOOLEAN :
        /\ f.stage = "sent"
        /\ fetching' = IF ok
                       THEN (fetching \ {f}) \cup
                            { [stage |-> "resolved", data |-> getChatPartners(messages, Me)] }
                       ELSE fetching \ {f}
        /\ UNCHANGED <<messages, userSocketMap, inbox, selectedUser, clientMessages, chats,
                       sending, marking, loading, arrived,
                       pinnedMessages, deleting, pinning, removed, running>>

\* useChatStore.getMyChatPartners after its await.
GetChatPartnersResponse ==
    \E f \in fetching :
        /\ f.stage = "resolved"
        /\ chats' = f.data
        /\ fetching' = fetching \ {f}
        /\ UNCHANGED <<messages, userSocketMap, inbox, selectedUser, clientMessages,
                       sending, marking, loading, arrived,
                       pinnedMessages, deleting, pinning, removed, running>>

\* The client's GET /:id is handled, or fails (the client only shows a toast).
ServeGetMessages ==
    \E call \in loading, ok \in BOOLEAN :
        /\ call.stage = "sent"
        /\ loading' = IF ok
                      THEN { [call EXCEPT
                                !.stage = "resolved",
                                !.data = Documents(messages,
                                             getMessagesByUserId(messages, Me, call.userId))] }
                      ELSE {}
        /\ UNCHANGED <<messages, userSocketMap, inbox, selectedUser, clientMessages, chats,
                       sending, marking, fetching, arrived,
                       pinnedMessages, deleting, pinning, removed, running>>

\* useChatStore.getMessagesByUserId after its await.
GetMessagesResponse ==
    \E call \in loading :
        /\ call.stage = "resolved"
        /\ clientMessages' = call.data
        /\ loading' = {}
        /\ UNCHANGED <<messages, userSocketMap, inbox, selectedUser, chats, sending, marking,
                   fetching, arrived, pinnedMessages, deleting, pinning, removed, running>>

\* A peer pins a message.
PeerPinMessage ==
    \E userId \in Peers, messageId \in MessageIds :
        /\ Served(pinMessage(messages, userSocketMap, userId, messageId))
        /\ UNCHANGED <<selectedUser, clientMessages, chats, sending, marking, loading, fetching, arrived,
                       pinnedMessages, deleting, pinning, removed, running>>

\* A peer unpins a message.
PeerUnpinMessage ==
    \E userId \in Peers, messageId \in MessageIds :
        /\ Served(unpinMessage(messages, userSocketMap, userId, messageId))
        /\ UNCHANGED <<selectedUser, clientMessages, chats, sending, marking, loading, fetching, arrived,
                       pinnedMessages, deleting, pinning, removed, running>>

\* "messagePinned".  The pinned list holds at most MaxPinned entries.
OnMessagePinned ==
    /\ inbox # <<>>
    /\ Head(inbox).event = "messagePinned"
    /\ selectedUser # Null => Len(pinnedMessages) < MaxPinned
    /\ inbox' = Tail(inbox)
    /\ LET after == on_messagePinned(clientMessages, pinnedMessages, Head(inbox).payload)
       IN  /\ clientMessages' = IF selectedUser = Null THEN clientMessages ELSE after.messages
           /\ pinnedMessages' = IF selectedUser = Null THEN pinnedMessages
                                ELSE after.pinnedMessages
    /\ UNCHANGED <<messages, userSocketMap, selectedUser, chats, sending, marking, loading, fetching, arrived,
                   deleting, pinning, removed, running>>

\* "messageUnpinned"
OnMessageUnpinned ==
    /\ inbox # <<>>
    /\ Head(inbox).event = "messageUnpinned"
    /\ inbox' = Tail(inbox)
    /\ LET after == on_messageUnpinned(clientMessages, pinnedMessages, Head(inbox).payload)
       IN  /\ clientMessages' = IF selectedUser = Null THEN clientMessages ELSE after.messages
           /\ pinnedMessages' = IF selectedUser = Null THEN pinnedMessages
                                ELSE after.pinnedMessages
    /\ UNCHANGED <<messages, userSocketMap, selectedUser, chats, sending, marking, loading, fetching, arrived,
                   deleting, pinning, removed, running>>

\* The user confirms the delete modal for a message of the list:
\* useChatStore.deleteMessageForEveryone (offered for one's own message) or
\* deleteMessageForMe, up to its await.  One delete is in flight at a time.
ClientDeleteMessage ==
    \E k \in 1..Len(clientMessages), kind \in {"everyone", "me"} :
        /\ deleting = {}
        /\ kind = "everyone" => clientMessages[k].senderId = Me
        /\ deleting' = { [ kind |-> kind, messageId |-> clientMessages[k]._id,
                           stage |-> "sent", status |-> 0 ] }
        /\ UNCHANGED <<messages, userSocketMap, inbox, selectedUser, clientMessages, chats,
                       sending, marking, loading, fetching, arrived, pinnedMessages, pinning,
                       removed, running>>

\* The client's DELETE is handled, or fails; a temporary id names no
\* document.
ServeDeleteMessage ==
    \E call \in deleting, ok \in BOOLEAN :
        /\ call.stage = "sent"
        /\ LET o == IF ~ok \/ call.messageId = TempId THEN Failed(messages)
                    ELSE IF call.kind = "everyone"
                    THEN deleteMessageForEveryone(messages, userSocketMap, Me, call.messageId)
                    ELSE deleteMessageForMe(messages, Me, call.messageId)
           IN  /\ Served(o)
               /\ deleting' = { [call EXCEPT !.stage = "answered", !.status = o.res.status] }
        /\ UNCHANGED <<selectedUser, clientMessages, chats, sending, marking, loading, fetching,
                       arrived, pinnedMessages, pinning, removed, running>>

\* useChatStore.deleteMessageForEveryone / deleteMessageForMe after the await.
DeleteMessageResponse ==
    \E call \in deleting :
        /\ call.stage = "answered"
        /\ clientMessages' =
              IF call.status # 200 THEN clientMessages
              ELSE IF call.kind = "everyone"
              THEN deleteMessageForEveryone_resolved(clientMessages, call.messageId)
              ELSE deleteMessageForMe_resolved(clientMessages, call.messageId)
        /\ pinnedMessages' =
              IF call.status # 200 THEN pinnedMessages
              ELSE IF call.kind = "everyone"
              THEN deleteMessageForEveryone_resolved(pinnedMessages, call.messageId)
              ELSE deleteMessageForMe_resolved(pinnedMessages, call.messageId)
        /\ removed' = IF clientMessages' # clientMessages
                      THEN removed \cup {call.messageId}
                      ELSE removed
        /\ deleting' = {}
        /\ UNCHANGED <<messages, userSocketMap, inbox, selectedUser, chats, sending, marking,
                       loading, fetching, arrived, pinning, running>>

\* The user picks Pin or Unpin in the menu of a message of the list
\* (MessageOptionsMenu.handlePinClick), or unpins an entry of the pinned
\* section: useChatStore.pinMessage / unpinMessage up to its await.  One such
\* call is in flight at a time.
ClientPinMessage ==
    \E m \in Range(clientMessages) \cup Range(pinnedMessages) :
        /\ pinning = {}
        /\ pinning' = { [ kind |-> IF m.isPinned THEN "unpin" ELSE "pin", messageId |-> m._id,
                          stage |-> "sent", res |-> Reply(0, "") ] }
        /\ UNCHANGED <<messages, userSocketMap, inbox, selectedUser, clientMessages, chats,
                       sending, marking, loading, fetching, arrived, pinnedMessages, deleting,
                       removed, running>>

\* The client's PATCH /pin/:id or /unpin/:id is handled, or fails; a
\* temporary id names no document.
ServePinMessage ==
    \E call \in pinning, ok \in BOOLEAN :
        /\ call.stage = "sent"
        /\ LET o == IF ~ok \/ call.messageId = TempId THEN Failed(messages)
                    ELSE IF call.kind = "pin"
                    THEN pinMessage(messages, userSocketMap, Me, call.messageId)
                    ELSE unpinMessage(messages, userSocketMap, Me, call.messageId)
           IN  /\ Served(o)
               /\ pinning' = { [call EXCEPT !.stage = "answered", !.res = o.res] }
        /\ UNCHANGED <<selectedUser, clientMessages, chats, sending, marking, loading, fetching,
                       arrived, pinnedMessages, deleting, removed, running>>

\* useChatStore.pinMessage / unpinMessage after the await.  The pinned list
\* holds at most MaxPinned entries.
PinMessageResponse ==
    \E call \in pinning :
        /\ call.stage = "answered"
        /\ (call.res.status = 200 /\ call.kind = "pin") => Len(pinnedMessages) < MaxPinned
        /\ LET after == IF call.res.status # 200
                        THEN [ messages |-> clientMessages, pinnedMessages |-> pinnedMessages ]
                        ELSE IF call.kind = "pin"
                        THEN pinMessage_resolved(clientMessages, pinnedMessages,
                                                 call.messageId, call.res.body)
                        ELSE unpinMessage_resolved(clientMessages, pinnedMessages,
                                                   call.messageId, call.res.body)
           IN  /\ clientMessages' = after.messages
               /\ pinnedMessages' = after.pinnedMessages
        /\ pinning' = {}
        /\ UNCHANGED <<messages, userSocketMap, inbox, selectedUser, chats, sending, marking,
                       loading, fetching, arrived, deleting, removed, running>>

\* The client sending in an open conversation while its peers send, delete
\* and read.
NextSend ==
    \/ ClientConnect
    \/ SelectUser
    \/ ServeGetMessages
    \/ GetMessagesResponse
    \/ ClientSendMessage
    \/ ServeSendMessage
    \/ SendMessageResponse
    \/ PeerSendMessage
    \/ PeerDeleteMessageForEveryone
    \/ PeerMarkMessagesAsRead
    \/ OnNewMessage
    \/ OnUnreadCountUpdate
    \/ OnMessageDeletedForEveryone
    \/ OnMessagesRead

SpecSend == Init /\ [][NextSend]_vars

\* What reaches the client of what its peers do, with the client's socket
\* coming and going.
NextDelivery ==
    \/ ClientConnect
    \/ ClientDisconnect
    \/ SelectUser
    \/ ServeGetMessages
    \/ GetMessagesResponse
    \/ PeerSendMessage
    \/ PeerDeleteMessageForEveryone
    \/ PeerDeleteMessageForMe
    \/ PeerMarkMessagesAsRead
    \/ OnNewMessage
    \/ OnUnreadCountUpdate
    \/ OnMessageDeletedForEveryone

SpecDelivery == Init /\ [][NextDelivery]_vars

\* The client's unread counters: the chat list, the conversations opened
\* and the messages of its peers.
NextUnread ==
    \/ ClientConnect
    \/ GetMyChatPartners
    \/ ServeGetChatPartners
    \/ GetChatPartnersResponse
    \/ SelectUser
    \/ ServeGetMessages
    \/ GetMessagesResponse
    \/ HandleTextChange
    \/ HandleChatContainerClick
    \/ PeerSendMessage
    \/ OnNewMessage
    \/ OnUnreadCountUpdate

SpecUnread == Init /\ [][NextUnread]_vars

\* The client's mark-read calls: one conversation opened, typed and clicked
\* in while its list is still loading, and the messages of its peers.
NextMarkRead ==
    \/ ClientConnect
    \/ GetMyChatPartners
    \/ ServeGetChatPartners
    \/ GetChatPartnersResponse
    \/ SelectUser
    \/ HandleTextChange
    \/ HandleChatContainerClick
    \/ ServeMarkRead
    \/ MarkReadResponse
    \/ PeerSendMessage
    \/ OnNewMessage
    \/ OnUnreadCountUpdate

SpecMarkRead == Init /\ [][NextMarkRead]_vars

\* The client's sends read by its peers: the chat list, the client's sends
\* in the conversation it opened (whose first load stays in flight), the
\* messages of its peers and their mark-read requests.
NextReadReceipt ==
    \/ ClientConnect
    \/ GetMyChatPartners
    \/ ServeGetChatPartners
    \/ GetChatPartnersResponse
    \/ SelectUser
    \/ ClientSendMessage
    \/ ServeSendMessage
    \/ SendMessageResponse
    \/ PeerSendMessage
    \/ PeerMarkMessagesAsRead
    \/ OnNewMessage
    \/ OnUnreadCountUpdate
    \/ OnMessagesRead

SpecReadReceipt == Init /\ [][NextReadReceipt]_vars

\* The client switching between conversations whose loads fail or are
\* still to be answered, so that the list holds only what the listener
\* appended, while its peers send.
NextSwitch ==
    \/ ClientConnect
    \/ GetMyChatPartners
    \/ ServeGetChatPartners
    \/ GetChatPartnersResponse
    \/ SelectUser
    \/ ServeGetMessages
    \/ PeerSendMessage
    \/ OnNewMessage
    \/ OnUnreadCountUpdate

SpecSwitch == Init /\ [][NextSwitch]_vars

\* The client deleting messages of its peers for itself while the peers
\* send, pin and delete for everyone; the list is filled by the listener
\* while the first load is in flight.
NextDelete ==
    \/ ClientConnect
    \/ SelectUser
    \/ PeerSendMessage
    \/ PeerPinMessage
    \/ PeerDeleteMessageForEveryone
    \/ OnNewMessage
    \/ OnUnreadCountUpdate
    \/ OnMessagePinned
    \/ OnMessageDeletedForEveryone
    \/ ClientDeleteMessage
    \/ ServeDeleteMessage
    \/ DeleteMessageResponse

SpecDelete == Init /\ [][NextDelete]_vars

\* The client sending twice in a row, the second send issued while the
\* first is in flight.
NextOverlap ==
    \/ SelectUser
    \/ ClientSendMessage
    \/ ClientSendMessageAgain
    \/ ServeSendMessage
    \/ SendMessageResponse

SpecOverlap == Init /\ [][NextOverlap]_vars

\* The client pinning and unpinning the messages of its peers while the
\* peers send, pin and unpin; the list is filled by the listener while the
\* first load is in flight.
NextPin ==
    \/ ClientConnect
    \/ SelectUser
    \/ PeerSendMessage
    \/ PeerPinMessage
    \/ PeerUnpinMessage
    \/ OnNewMessage
    \/ OnUnreadCountUpdate
    \/ OnMessagePinned
    \/ OnMessageUnpinned
    \/ ClientPinMessage
    \/ ServePinMessage
    \/ PinMessageResponse

SpecPin == Init /\ [][NextPin]_vars

\* The messages of the peers to Me (who is not connected) with the delete
\* handlers taken step by step: a request reads the message, other requests
\* run, then it saves.
NextConcurrent ==
    \/ PeerSendMessage
    \/ FindForDeleteForEveryone
    \/ FindForDeleteForMe
    \/ SaveMessage

SpecConcurrent == Init /\ [][NextConcurrent]_vars

\* The store and the socket registry: every handler of part_000 with
\* connections coming and going.
Next ==
    \/ Connect
    \/ Disconnect
    \/ SendMessage
    \/ DeleteMessageForEveryone
    \/ DeleteMessageForMe
    \/ MarkMessagesAsRead

Spec == Init /\ [][Next]_vars

\* The store alone, with pinning: every mutation of a message, no connection.
NextStore ==
    \/ SendMessage
    \/ DeleteMessageForEveryone
    \/ DeleteMessageForMe
    \/ MarkMessagesAsRead
    \/ PinMessage
    \/ UnpinMessage

SpecStore == Init /\ [][NextStore]_vars

\* ------------------------------------------------------------------ vocabulary of the properties

\* The stored messages' ids.
Stored == 1..Len(messages)

\* The participant of message m that is not u.
Peer(m, u) == IF m.senderId = u THEN m.receiverId ELSE m.senderId

IsParticipant(m, u) == u = m.senderId \/ u = m.receiverId

\* Message m is hidden from viewer by one of the two deletion marks.
Hidden(m, viewer) == m.deletedForEveryone \/ viewer \in Range(m.deletedFor)

\* ------------------------------------------------------------------ C1

\* C1: for every store state, viewer and peer, getMessagesByUserId returns
\* exactly (and once each) the messages whose parties are {viewer, peer}, that
\* are not deleted for everyone and that the viewer has not deleted for
\* themselves; nothing of another conversation is returned.
C1_ListConversationFilter ==
    \A viewer \in Users, peer \in Users \cup {NoUser} :
        LET result == getMessagesByUserId(messages, viewer, peer)
            expected == { i \in Stored :
                            /\ {messages[i].senderId, messages[i].receiverId} = {viewer, peer}
                            /\ messages[i].deletedForEveryone = FALSE
                            /\ viewer \notin Range(messages[i].deletedFor) }
        IN  /\ Range(result) = expected
            /\ Len(result) = Cardinality(expected)

\* A message of the chat that the viewer deleted for themselves, still listed
\* for the peer, next to a message of another chat of the viewer.
C1_Witness ==
    \E viewer \in Users, peer \in Users, i \in Stored, j \in Stored :
        /\ {messages[i].senderId, messages[i].receiverId} = {viewer, peer}
        /\ viewer \in Range(messages[i].deletedFor)
        /\ getMessagesByUserId(messages, peer, viewer) = <<i>>
        /\ IsParticipant(messages[j], viewer)
        /\ ~IsParticipant(messages[j], peer)
        /\ ~Hidden(messages[j], viewer)
        /\ getMessagesByUserId(messages, viewer, peer) = <<>>

\* ------------------------------------------------------------------ C2

\* A message deleted for everyone is in nobody's conversation list and in
\* nobody's pinned list.
AbsentForBoth(msgs, i) ==
    \A viewer \in {msgs[i].senderId, msgs[i].receiverId} :
        /\ i \notin Range(getMessagesByUserId(msgs, viewer, Peer(msgs[i], viewer)))
        /\ i \notin Range(getPinnedMessages(msgs, viewer, Peer(msgs[i], viewer)))

\* Every message deleted for everyone is absent for both participants.
DeletedForEveryoneIsHidden ==
    \A i \in Stored : messages[i].deletedForEveryone => AbsentForBoth(messages, i)

\* C2: once a message is deleted for everyone, every later step (send,
\* mark-read, delete-for-me, delete-for-everyone, pin, unpin, by any user)
\* leaves deletedForEveryone true, and in every state the message is absent
\* from listConversation and from listPinned for both participants.
C2_DeletedForEveryoneIsPermanent ==
    /\ []DeletedForEveryoneIsHidden
    /\ [][ /\ Len(messages') >= Len(messages)
           /\ \A i \in Stored :
                messages[i].deletedForEveryone => messages'[i].deletedForEveryone ]_vars

\* A pinned message that was read, deleted for everyone and still carries its pin.
C2_Witness ==
    \E i \in Stored :
        /\ messages[i].deletedForEveryone
        /\ messages[i].isPinned
        /\ messages[i].read
        /\ messages[i].deletedFor = <<>>

\* ------------------------------------------------------------------ C3

\* C3: in every reachable store state the unreadCount of a partner in
\* getChatPartners(viewer) is the number of messages partner -> viewer that
\* are unread, not deleted for everyone and not deleted by the viewer.
C3_UnreadCount ==
    \A viewer \in Users :
        LET partners == getChatPartners(messages, viewer)
        IN  \A partner \in DOMAIN partners :
                partners[partner] =
                    Cardinality({ i \in Stored :
                                    /\ messages[i].senderId = partner
                                    /\ messages[i].receiverId = viewer
                                    /\ messages[i].read = FALSE
                                    /\ messages[i].deletedForEveryone = FALSE
                                    /\ viewer \notin Range(messages[i].deletedFor) })

\* Two unread messages partner -> viewer, one of which the viewer deleted for
\* themselves: the count is 1.
C3_Witness ==
    \E viewer \in Users, partner \in Users, i \in Stored, j \in Stored :
        /\ i # j
        /\ messages[i].senderId = partner /\ messages[i].receiverId = viewer
        /\ messages[j].senderId = partner /\ messages[j].receiverId = viewer
        /\ ~messages[i].read /\ ~messages[j].read
        /\ viewer \in Range(messages[i].deletedFor)
        /\ ~Hidden(messages[j], viewer)
        /\ getChatPartners(messages, viewer)[partner] = 1

\* ------------------------------------------------------------------ C4

\* The stored fields of message k other than deletedFor are the same in both.
SameButDeletedFor(before, after, k) ==
    [after[k] EXCEPT !.deletedFor = before[k].deletedFor] = before[k]

\* C4: for a participant, deleteMessageForMe followed by the same call again
\* answers "already deleted" the second time and changes nothing; neither
\* call changes what the other participant's conversation list contains.
C4_DeleteForMeTwice ==
    \A actor \in Users, id \in Stored :
        IsParticipant(messages[id], actor) =>
            LET peer == Peer(messages[id], actor)
                first == deleteMessageForMe(messages, actor, id)
                second == deleteMessageForMe(first.messages, actor, id)
                seen == getMessagesByUserId(messages, peer, actor)
            IN  /\ second.res = Reply(400, "Message already deleted for you")
                /\ second.messages = first.messages
                /\ second.emitted = <<>>
                /\ getMessagesByUserId(first.messages, peer, actor) = seen
                /\ getMessagesByUserId(second.messages, peer, actor) = seen
                /\ \A k \in Range(seen) : SameButDeletedFor(messages, second.messages, k)

\* A message its actor has deleted for themselves and the peer still lists.
C4_Witness ==
    \E actor \in Users, id \in Stored :
        /\ IsParticipant(messages[id], actor)
        /\ messages[id].deletedFor = <<actor>>
        /\ id \in Range(getMessagesByUserId(messages, Peer(messages[id], actor), actor))
        /\ deleteMessageForMe(messages, actor, id).res.status = 400

\* ------------------------------------------------------------------ C5

\* C5: markMessagesAsRead called twice in a row: the second call modifies
\* zero messages, leaves the store as the first call left it and notifies nobody.
C5_MarkReadIdempotent ==
    \A viewer \in Users, peer \in Users \cup {NoUser} :
        LET first == markMessagesAsRead(messages, userSocketMap, viewer, peer)
            second == markMessagesAsRead(first.messages, userSocketMap, viewer, peer)
        IN  /\ modifiedCount(first.messages, viewer, peer) = 0
            /\ second.messages = first.messages
            /\ second.emitted = <<>>

\* Two messages peer -> viewer, both read by a mark-read, with the peer connected.
C5_Witness ==
    \E viewer \in Users, peer \in userSocketMap :
        /\ Len(messages) = 2
        /\ \A i \in Stored :
              /\ messages[i].senderId = peer
              /\ messages[i].receiverId = viewer
              /\ messages[i].read
        /\ modifiedCount(messages, viewer, peer) = 0

\* ------------------------------------------------------------------ C6

\* C6: deleteMessageForEveryone answers 404 for a message that does not
\* exist and 403 for an actor who is not the sender (the receiver included);
\* in both cases the store is unchanged and no event is emitted; it answers
\* 200 and sets the flag exactly when the actor is the sender.
C6_DeleteForEveryoneErrors ==
    \A actor \in Users, id \in MessageIds :
        LET o == deleteMessageForEveryone(messages, userSocketMap, actor, id)
        IN  /\ id \notin Stored =>
                /\ o.res = Reply(404, "Message not found")
                /\ o.messages = messages
                /\ o.emitted = <<>>
            /\ (id \in Stored /\ messages[id].senderId # actor) =>
                /\ o.res = Reply(403, "You can only delete your own messages for everyone")
                /\ o.messages = messages
                /\ o.emitted = <<>>
            /\ (id \in Stored /\ messages[id].senderId = actor) =>
                /\ o.res.status = 200
                /\ o.messages[id].deletedForEveryone
            /\ o.res.status = 200 => (id \in Stored /\ messages[id].senderId = actor)

\* One message deleted for everyone by its sender, another one not deleted
\* whose receiver (connected, like the sender) is refused, and an id that
\* does not exist.
C6_Witness ==
    \E i \in Stored, j \in Stored :
        /\ messages[i].deletedForEveryone
        /\ ~messages[j].deletedForEveryone
        /\ {messages[j].senderId, messages[j].receiverId} \subseteq userSocketMap
        /\ deleteMessageForEveryone(messages, userSocketMap, messages[j].receiverId, j).res.status = 403
        /\ deleteMessageForEveryone(messages, userSocketMap, messages[j].senderId, MaxMsgs + 1).res.status = 404

\* ------------------------------------------------------------------ C7

\* C7: sendMessage answers "text or image is required" when the body has
\* neither, "cannot send message to yourself" when (the body has one and)
\* sender = receiver, "receiver not found" when (both checks pass and) the
\* receiver is no account -- the checks run in that order; whenever it does
\* not answer 201 the store is unchanged and no event is emitted.
C7_SendErrors ==
    \A senderId \in Users, receiverId \in Users \cup {NoUser}, p \in Payloads :
        LET o == sendMessage(messages, userSocketMap, senderId, receiverId,
                             p.text, p.image, p.uploadOk)
            empty == p.text = "" /\ p.image = ""
            self == senderId = receiverId
            unknown == receiverId \notin Users
        IN  /\ empty => o.res = Reply(400, "Message text or image is required")
            /\ (~empty /\ self) => o.res = Reply(400, "You cannot send message to yourself")
            /\ (~empty /\ ~self /\ unknown) => o.res = Reply(404, "Receiver user not found")
            /\ (empty \/ self \/ unknown) => o.res.status # 201
            /\ o.res.status # 201 => (o.messages = messages /\ o.emitted = <<>>)

\* A store that holds messages, with every user connected: a refused send
\* has something to leave unchanged and someone it could have notified.
C7_Witness ==
    /\ Len(messages) = MaxMsgs
    /\ userSocketMap = Users

\* ------------------------------------------------------------------ C8

\* Every flag a mark-read request of myId would set belongs to a message
\* peer -> myId: the caller is the message's receiver.
MarkReadSetsOnlyReceived ==
    \A myId \in Users, peer \in Users \cup {NoUser} :
        LET o == markMessagesAsRead(messages, userSocketMap, myId, peer)
        IN  \A i \in Stored :
                (~messages[i].read /\ o.messages[i].read) =>
                    (messages[i].receiverId = myId /\ messages[i].senderId = peer)

\* C8: a read flag never goes from true to false; a new message is unread;
\* a flag goes from false to true only in a step that is a
\* markMessagesAsRead request, and such a request sets flags only of
\* messages whose receiver is the caller -- so no step of the sender (send,
\* mark-read in the opposite direction, delete, pin) sets it.
C8_ReadOnlyByReceiver ==
    /\ []MarkReadSetsOnlyReceived
    /\ [][ /\ Len(messages') >= Len(messages)
           /\ \A i \in 1..Len(messages') :
                IF i > Len(messages)
                THEN ~messages'[i].read
                ELSE /\ messages[i].read => messages'[i].read
                     /\ (~messages[i].read /\ messages'[i].read) =>
                           \E myId \in Users, peer \in Users :
                               messages' = markMessagesAsRead(messages, userSocketMap,
                                                              myId, peer).messages
         ]_vars

\* Two messages in opposite directions: one read by its receiver, the other
\* unread although its sender (the reader of the first) pinned it and deleted
\* it for themselves.
C8_Witness ==
    \E i \in Stored, j \in Stored :
        /\ messages[i].read
        /\ messages[j].senderId = messages[i].receiverId
        /\ messages[j].receiverId = messages[i].senderId
        /\ ~messages[j].read
        /\ messages[j].pinnedBy = messages[j].senderId
        /\ messages[j].deletedFor = <<messages[j].senderId>>

\* ------------------------------------------------------------------ C9

\* C9: getChatPartners(viewer) lists exactly the users the viewer has
\* exchanged a message with, whatever the deletion state of those messages.
C9_ChatPartnersIgnoreDeletion ==
    \A viewer \in Users :
        DOMAIN getChatPartners(messages, viewer) =
            { u \in Users : \E i \in Stored :
                {messages[i].senderId, messages[i].receiverId} = {viewer, u} }

\* A partner all of whose messages with the viewer are hidden from the
\* viewer, one deleted for everyone and one deleted by the viewer.
C9_Witness ==
    \E viewer \in Users, partner \in Users :
        /\ Len(messages) = 2
        /\ \A i \in Stored : {messages[i].senderId, messages[i].receiverId} = {viewer, partner}
        /\ \E i \in Stored : messages[i].deletedForEveryone
        /\ \E i \in Stored : ~messages[i].deletedForEveryone /\ viewer \in Range(messages[i].deletedFor)
        /\ getMessagesByUserId(messages, viewer, partner) = <<>>
        /\ partner \in DOMAIN getChatPartners(messages, viewer)

\* ------------------------------------------------------------------ C10

\* C10: every event a sendMessage emits is addressed to the receiver, whose
\* connection is registered; a send answered 201 with the receiver connected
\* emits newMessage, carrying the created message, to the receiver; nothing
\* goes to the sender's connection or to a third user's.
C10_NewMessageToReceiverOnly ==
    \A senderId \in Users, receiverId \in Users \cup {NoUser}, p \in Payloads :
        LET o == sendMessage(messages, userSocketMap, senderId, receiverId,
                             p.text, p.image, p.uploadOk)
        IN  /\ \A k \in 1..Len(o.emitted) :
                  /\ o.emitted[k].to = receiverId
                  /\ receiverId \in userSocketMap
                  /\ o.res.status = 201
            /\ (o.res.status = 201 /\ receiverId \in userSocketMap) =>
                  /\ Cardinality({ k \in 1..Len(o.emitted) : o.emitted[k].event = "newMessage" }) = 1
                  /\ \E k \in 1..Len(o.emitted) :
                        o.emitted[k] = Event(receiverId, "newMessage", o.res.body)

\* One message stored and visible to its receiver, every user (the sender,
\* the receiver, the third user) connected, and room for another send.
C10_Witness ==
    /\ userSocketMap = Users
    /\ Len(messages) = 1
    /\ ~Hidden(messages[1], messages[1].receiverId)

\* ------------------------------------------------------------------ C11

\* The positions of the events of a handler's outcome addressed to user u.
EventsTo(emitted, u) == { k \in 1..Len(emitted) : emitted[k].to = u }

\* C11: a deleteMessageForEveryone answered 200 emits
\* messageDeletedForEveryone, carrying the message's id, once to the sender
\* if the sender is connected and once to the receiver if the receiver is
\* connected -- each whether or not the other is -- and emits nothing else.
C11_DeletedForEveryoneToBoth ==
    \A actor \in Users, id \in MessageIds :
        LET o == deleteMessageForEveryone(messages, userSocketMap, actor, id)
        IN  o.res.status = 200 =>
                /\ \A u \in {messages[id].senderId, messages[id].receiverId} :
                      IF u \in userSocketMap
                      THEN /\ Cardinality(EventsTo(o.emitted, u)) = 1
                           /\ \A k \in EventsTo(o.emitted, u) :
                                 o.emitted[k] = Event(u, "messageDeletedForEveryone", id)
                      ELSE EventsTo(o.emitted, u) = {}
                /\ \A k \in 1..Len(o.emitted) :
                      o.emitted[k].to \in {messages[id].senderId, messages[id].receiverId}

\* Two messages deleted for everyone by their senders, both senders connected
\* and the receiver of one of them not.
C11_Witness ==
    /\ Len(messages) = 2
    /\ \A i \in Stored :
          /\ messages[i].deletedForEveryone
          /\ messages[i].senderId \in userSocketMap
    /\ \E i \in Stored : messages[i].receiverId \notin userSocketMap
    /\ \E i \in Stored : messages[i].receiverId \in userSocketMap

\* ------------------------------------------------------------------ C12

\* C12: whenever the store holds an unread message a -> b, a
\* markMessagesAsRead(b, a) answers 200 and leaves a store in which
\* getChatPartners(b) lists a with unreadCount 0; if a is connected it emits
\* messagesRead with readBy = b to a exactly once, and if a is not it emits
\* nothing; no event of it is addressed to anyone but a.
C12_MarkReadScenario ==
    \A a \in Users, b \in Users :
        (\E i \in Stored : /\ messages[i].senderId = a
                           /\ messages[i].receiverId = b
                           /\ ~messages[i].read) =>
            LET o == markMessagesAsRead(messages, userSocketMap, b, a)
                partners == getChatPartners(o.messages, b)
            IN  /\ o.res.status = 200
                /\ a \in DOMAIN partners
                /\ partners[a] = 0
                /\ \A k \in 1..Len(o.emitted) : o.emitted[k].to = a
                /\ Cardinality({ k \in 1..Len(o.emitted) :
                                   o.emitted[k].event = "messagesRead" })
                      = (IF a \in userSocketMap THEN 1 ELSE 0)
                /\ \A k \in 1..Len(o.emitted) :
                      o.emitted[k].event = "messagesRead" => o.emitted[k].payload.readBy = b
                /\ a \notin userSocketMap => o.emitted = <<>>

\* Two messages a -> b with a, b and the third user connected: the first was
\* read by a mark-read of b, the second was sent after it and is unread.
C12_Witness ==
    /\ Len(messages) = 2
    /\ userSocketMap = Users
    /\ messages[1].senderId = messages[2].senderId
    /\ messages[1].receiverId = messages[2].receiverId
    /\ messages[1].read
    /\ ~messages[2].read
    /\ getChatPartners(messages, messages[2].receiverId)[messages[2].senderId] = 1

\* ------------------------------------------------------------------ C13

\* Whatever a handler would publish to a user without a registered socket
\* is not emitted, and the handler succeeds all the same: the send stores
\* the message and answers 201, the delete-for-everyone sets the flag and
\* answers 200, the mark-read sets the flags and answers 200.
OfflinePublishIsDropped ==
    /\ \A senderId \in Users, receiverId \in Users \ userSocketMap, p \in Payloads :
          LET o == sendMessage(messages, userSocketMap, senderId, receiverId,
                               p.text, p.image, p.uploadOk)
          IN  (/\ p.text # "" \/ p.image # ""
               /\ senderId # receiverId
               /\ p.image # "" => p.uploadOk) =>
                  /\ o.res.status = 201
                  /\ o.messages = Append(messages, o.res.body)
                  /\ EventsTo(o.emitted, receiverId) = {}
    /\ \A id \in Stored :
          LET o == deleteMessageForEveryone(messages, userSocketMap, messages[id].senderId, id)
          IN  /\ o.res.status = 200
              /\ o.messages[id].deletedForEveryone
              /\ \A t \in {messages[id].senderId, messages[id].receiverId} \ userSocketMap :
                    EventsTo(o.emitted, t) = {}
    /\ \A myId \in Users, peer \in Users \ userSocketMap :
          LET o == markMessagesAsRead(messages, userSocketMap, myId, peer)
          IN  /\ o.res.status = 200
              /\ \A i \in Stored :
                    (messages[i].senderId = peer /\ messages[i].receiverId = myId) =>
                        o.messages[i].read
              /\ EventsTo(o.emitted, peer) = {}

\* The step queues events for the client that a handler, run on the store
\* as it is before the step, emits to the client's socket.
QueuesWhatAHandlerEmits ==
    \/ \E senderId \in Users, p \in Payloads :
          LET o == sendMessage(messages, userSocketMap, senderId, Me, p.text, p.image, p.uploadOk)
          IN  messages' = o.messages /\ inbox' = inbox \o ToMe(o.emitted)
    \/ \E userId \in Users, id \in MessageIds :
          LET o == deleteMessageForEveryone(messages, userSocketMap, userId, id)
          IN  messages' = o.messages /\ inbox' = inbox \o ToMe(o.emitted)
    \/ \E myId \in Users :
          LET o == markMessagesAsRead(messages, userSocketMap, myId, Me)
          IN  messages' = o.messages /\ inbox' = inbox \o ToMe(o.emitted)

\* C13: a handler that would notify a user without a registered socket
\* still succeeds and persists, and emits nothing to that user; while the
\* client has no registered socket no step adds an event to its inbox -- not
\* the step that produces the event and not the step that registers the
\* socket -- and once it is registered, a step adds only the events that a
\* handler emits in that very step.
C13_OfflineEventsAreDropped ==
    /\ []OfflinePublishIsDropped
    /\ [][ /\ Me \notin userSocketMap =>
                 (inbox' = inbox \/ (inbox # <<>> /\ inbox' = Tail(inbox)))
           /\ Len(inbox') > Len(inbox) => QueuesWhatAHandlerEmits ]_vars

\* The store is full of messages to the client's user, one of them deleted
\* for everyone, the client's socket is registered and no event waits for it.
C13_Witness ==
    /\ Me \in userSocketMap
    /\ inbox = <<>>
    /\ selectedUser = Null
    /\ clientMessages = <<>>
    /\ Len(messages) = MaxMsgs
    /\ \A i \in Stored : messages[i].receiverId = Me
    /\ \E i \in Stored : messages[i].deletedForEveryone

\* ------------------------------------------------------------------ C14

\* A deleteMessageForMe emits nothing, whatever it answers, and what the
\* other participant is served for the conversation is the same before and
\* after it.
DeleteForMeIsSilent ==
    \A actor \in Users, id \in MessageIds :
        LET o == deleteMessageForMe(messages, actor, id)
        IN  /\ o.emitted = <<>>
            /\ o.res.status = 200 =>
                  LET peer == Peer(messages[id], actor)
                  IN  Documents(o.messages, getMessagesByUserId(o.messages, peer, actor))
                        = Documents(messages, getMessagesByUserId(messages, peer, actor))

\* C14: deleteMessageForMe emits no event, to the peer or to the actor, and
\* leaves the peer's view of the store as it was; in a step in which a peer
\* of the client deletes a message for themselves, no event is queued for
\* the client and the client's message list and counters do not change.
C14_DeleteForMeNotBroadcast ==
    /\ []DeleteForMeIsSilent
    /\ [][ (\E i \in Stored : messages'[i].deletedFor # messages[i].deletedFor) =>
                /\ inbox' = inbox
                /\ clientMessages' = clientMessages
                /\ chats' = chats
                /\ Documents(messages', getMessagesByUserId(messages', Me, selectedUser))
                      = Documents(messages, getMessagesByUserId(messages, Me, selectedUser)) ]_vars

\* The client, connected, has the conversation with a peer open and lists a
\* message of that peer which the peer has deleted for themselves.
C14_Witness ==
    \E i \in Stored :
        /\ Me \in userSocketMap
        /\ messages[i].senderId = selectedUser
        /\ messages[i].receiverId = Me
        /\ messages[i].deletedFor = << selectedUser >>
        /\ inbox = <<>>
        /\ \E k \in 1..Len(clientMessages) : clientMessages[k]._id = i

\* ------------------------------------------------------------------ C15

\* The _ids of the entries of a client message list.
Ids(list) == { list[k]._id : k \in 1..Len(list) }

\* The step applies the response of the send in flight.
SendResponseApplied == sending # {} /\ sending' = {}

\* C15: when the response of the client's send is applied, success or
\* failure, every message that the "newMessage" listener appended to the list
\* while that send was in flight, and that is in the list just before the
\* response is applied, is in the list just after.
C15_NoEventLostDuringSend ==
    [][ SendResponseApplied =>
            \A id \in arrived : id \in Ids(clientMessages) => id \in Ids(clientMessages') ]_vars

\* ------------------------------------------------------------------ C16

\* The step starts a send: the POST goes in flight.
SendStarted == sending = {} /\ sending' # {}

\* C16: with no other send in flight, the step that starts a send appends
\* one entry to the list, carrying the temporary id and the optimistic tag;
\* the step that applies the 201 response leaves a list that holds the
\* created message exactly once, as the server answered it, and no entry
\* with the temporary id or the optimistic tag.
C16_OptimisticThenConfirmed ==
    [][ /\ SendStarted =>
              /\ Len(clientMessages') = Len(clientMessages) + 1
              /\ SubSeq(clientMessages', 1, Len(clientMessages)) = clientMessages
              /\ clientMessages'[Len(clientMessages')]._id = TempId
              /\ clientMessages'[Len(clientMessages')].isOptimistic
              /\ clientMessages'[Len(clientMessages')].receiverId = selectedUser
        /\ \A call \in sending :
              (SendResponseApplied /\ call.res.status = 201) =>
                  /\ Cardinality({ k \in 1..Len(clientMessages') :
                                     clientMessages'[k]._id = call.res.body._id }) = 1
                  /\ \E k \in 1..Len(clientMessages') :
                        clientMessages'[k] = ToClient(call.res.body)
                  /\ \A k \in 1..Len(clientMessages') :
                        /\ clientMessages'[k]._id # TempId
                        /\ ~clientMessages'[k].isOptimistic ]_vars

\* The POST of a send was answered 201 and the response is not applied yet:
\* the list loaded for the conversation holds a message of the peer and the
\* optimistic entry.
C16_Witness ==
    \E call \in sending :
        /\ call.stage = "answered"
        /\ call.res.status = 201
        /\ Len(call.messages) = 1
        /\ Len(clientMessages) = 2
        /\ clientMessages[1].senderId = selectedUser
        /\ clientMessages[2]._id = TempId

\* ------------------------------------------------------------------ C17

\* C17: the step that applies a failure response of the client's send
\* leaves the list as it is just before the step with the optimistic entry
\* of that send taken out and nothing else changed -- what the listeners
\* appended, removed or marked read during the request included --, leaves
\* the counters of the chat list unchanged, and puts no new send in flight.
C17_FailedSendRollsBackOnlyItself ==
    [][ \A call \in sending :
            (SendResponseApplied /\ call.res.status # 201) =>
                /\ clientMessages' = SelectSeq(clientMessages, LAMBDA m : m._id # TempId)
                /\ chats' = chats
                /\ sending' = {} ]_vars

\* ------------------------------------------------------------------ C18

NewMessageOfOpenConversationHandled ==
    /\ inbox # <<>>
    /\ inbox' = Tail(inbox)
    /\ Head(inbox).event = "newMessage"
    /\ selectedUser # Null
    /\ Head(inbox).payload.senderId = selectedUser

\* C19: the step that handles a newMessage event of the open conversation's
\* peer appends the message to the list and leaves a mark-read request for
\* that peer in flight, not yet answered.
C19_NewMessageInOpenConversationIsMarkedRead ==
    [][ NewMessageOfOpenConversationHandled =>
            /\ clientMessages' = Append(clientMessages, ToClient(Head(inbox).payload))
            /\ [userId |-> selectedUser, stage |-> "sent"] \in marking' ]_vars

\* ------------------------------------------------------------------ C20

\* The calls in flight mk hold a mark-read request for p that is not
\* answered yet, and the chat list cs has the partners of `before` with the
\* counter of p at zero and every other counter as in `before`.
MarkReadSentAndCounterReset(mk, cs, before, p) ==
    /\ [userId |-> p, stage |-> "sent"] \in mk
    /\ DOMAIN cs = DOMAIN before
    /\ \A c \in DOMAIN cs : cs[c] = IF c = p THEN 0 ELSE before[c]

\* With a conversation open, typing the first character, and clicking into
\* the conversation, each leave a mark-read request for its peer in flight
\* and its counter at zero.
TypingAndClickingMarkRead ==
    selectedUser # Null =>
        /\ LET typed == handleTextChange(selectedUser, marking, chats, 1)
           IN  MarkReadSentAndCounterReset(typed.marking, typed.chats, chats, selectedUser)
        /\ LET clicked == handleChatContainerClick(selectedUser, marking, chats)
           IN  MarkReadSentAndCounterReset(clicked.marking, clicked.chats, chats, selectedUser)

\* C20: the step that opens the conversation with a peer, and the handler of
\* the first typed character (and of a click) in the open conversation,
\* each put a mark-read request for that peer in flight and set the peer's
\* counter in the chat list to zero in the same step, while the request is
\* not answered.
C20_OpeningAndTypingMarkRead ==
    /\ []TypingAndClickingMarkRead
    /\ [][ selectedUser' # selectedUser =>
                MarkReadSentAndCounterReset(marking', chats', chats, selectedUser') ]_vars

\* A conversation is open, its mark-read request is in flight and its
\* counter is at zero while the store still counts two unread messages of
\* that peer.
C20_Witness ==
    /\ selectedUser \in DOMAIN chats
    /\ chats[selectedUser] = 0
    /\ [userId |-> selectedUser, stage |-> "sent"] \in marking
    /\ unreadCount(messages, Me, selectedUser) = 2

\* ------------------------------------------------------------------ C21

\* `after` is `before` without its entries of that id, the other entries as
\* they were and in their order.
WithoutId(before, after, id) ==
    /\ id \notin Ids(after)
    /\ after = SelectSeq(before, LAMBDA msg : msg._id # id)

\* The two delete functions of the store, applied to the message list and to
\* the pinned list for any id, take out the entries of that id only.
DeleteFunctionsFilterById ==
    \A id \in MessageIds \cup {TempId} :
        /\ WithoutId(clientMessages, deleteMessageForEveryone_resolved(clientMessages, id), id)
        /\ WithoutId(pinnedMessages, deleteMessageForEveryone_resolved(pinnedMessages, id), id)
        /\ WithoutId(clientMessages, deleteMessageForMe_resolved(clientMessages, id), id)
        /\ WithoutId(pinnedMessages, deleteMessageForMe_resolved(pinnedMessages, id), id)

\* The step applies the success response of the delete in flight.
DeleteSucceeded(call) ==
    /\ call \in deleting
    /\ deleting' = {}
    /\ call.status = 200

\* The step handles a "messageDeletedForEveryone" event.
DeletedForEveryoneHandled ==
    /\ inbox # <<>>
    /\ inbox' = Tail(inbox)
    /\ Head(inbox).event = "messageDeletedForEveryone"

\* C21: the step that applies the success response of a delete-for-me or
\* delete-for-everyone, and the step that handles a messageDeletedForEveryone
\* event, each leave the message list and the pinned list without the
\* entries of that message id and with every other entry as it was.
C21_DeletionRemovesFromBothLists ==
    /\ []DeleteFunctionsFilterById
    /\ [][ /\ \A call \in deleting :
                DeleteSucceeded(call) =>
                    /\ WithoutId(clientMessages, clientMessages', call.messageId)
                    /\ WithoutId(pinnedMessages, pinnedMessages', call.messageId)
           /\ DeletedForEveryoneHandled =>
                    /\ WithoutId(clientMessages, clientMessages', Head(inbox).payload)
                    /\ WithoutId(pinnedMessages, pinnedMessages', Head(inbox).payload) ]_vars

\* A deletion was applied to a message that was pinned: the other message of
\* the conversation is still in the message list and in the pinned list.
C21_Witness ==
    /\ removed = {1}
    /\ Hidden(messages[1], Me)
    /\ messages[1].isPinned
    /\ Ids(clientMessages) = {2}
    /\ Ids(pinnedMessages) = {2}

\* ------------------------------------------------------------------ C22

\* C22: a message that a deletion took out of the client's message list (its
\* own successful delete, or a messageDeletedForEveryone event) is in
\* neither the message list nor the pinned list in any later state.
C22_RemovedNeverReappears ==
    \A id \in removed :
        /\ id \notin Ids(clientMessages)
        /\ id \notin Ids(pinnedMessages)

\* ------------------------------------------------------------------ C23

\* C23: for every stored message and each of its participants a, pinMessage
\* by a succeeds and unpinMessage by the other participant b then succeeds
\* too; it leaves the message with isPinned false and pinnedAt and pinnedBy
\* null, the message is in the pinned list of neither participant, and
\* where the chat has no other pinned message both pinned lists are empty.
C23_PeerCanUnpin ==
    \A id \in Stored :
        \A a \in {messages[id].senderId, messages[id].receiverId} :
            LET b == Peer(messages[id], a)
                pinned == pinMessage(messages, userSocketMap, a, id)
                unpinned == unpinMessage(pinned.messages, userSocketMap, b, id)
                after == unpinned.messages
            IN  /\ pinned.res.status = 200
                /\ pinned.messages[id].isPinned
                /\ unpinned.res.status = 200
                /\ after[id].isPinned = FALSE
                /\ after[id].pinnedAt = Null
                /\ after[id].pinnedBy = Null
                /\ id \notin Range(getPinnedMessages(after, a, b))
                /\ id \notin Range(getPinnedMessages(after, b, a))
                /\ (\A j \in Stored \ {id} : ~messages[j].isPinned) =>
                      /\ getPinnedMessages(after, a, b) = <<>>
                      /\ getPinnedMessages(after, b, a) = <<>>

\* The only pinned message, pinned by its sender and listed as pinned for
\* the receiver, who can unpin it.
C23_Witness ==
    \E id \in Stored :
        /\ messages[id].isPinned
        /\ messages[id].pinnedBy = messages[id].senderId
        /\ \A j \in Stored \ {id} : ~messages[j].isPinned
        /\ getPinnedMessages(messages, messages[id].receiverId, messages[id].senderId) = << id >>
        /\ unpinMessage(messages, userSocketMap, messages[id].receiverId, id).res.status = 200

\* ------------------------------------------------------------------ C24

\* Two sends of the client are in flight and both were answered 201.
BothSendsAnswered ==
    /\ Cardinality(sending) = 2
    /\ \A call \in sending : call.stage = "answered" /\ call.res.status = 201

\* The list holds the two created messages once each and no entry with a
\* temporary id or the optimistic tag.
BothConfirmedOnce(list, first, second) ==
    /\ \A data \in {first, second} :
          Cardinality({ k \in 1..Len(list) : list[k]._id = data._id }) = 1
    /\ \A k \in 1..Len(list) : list[k]._id \in MessageIds /\ ~list[k].isOptimistic

\* C24: when two overlapping sends of the client were both answered 201,
\* applying the two responses, in either order, leaves a list that holds
\* both created messages exactly once each and no entry with a temporary id
\* or the optimistic tag.  (A response sets the list from what its own call
\* captured, so the list after both is what the response applied last leaves.)
C24_OverlappingSendsBothConfirmed ==
    BothSendsAnswered =>
        \A last \in sending :
            \A first \in sending \ {last} :
                LET afterBoth == sendMessage_resolved(last.messages, last.res.body)
                IN  BothConfirmedOnce(afterBoth, first.res.body, last.res.body)

\* ------------------------------------------------------------------ C25

\* C25: in every state of the client no two entries of the message list
\* have the same message id, whichever way the response of a conversation
\* fetch and the newMessage event of a message it contains are ordered.
C25_NoDuplicateIds ==
    \A k \in 1..Len(clientMessages), l \in 1..Len(clientMessages) :
        k # l => clientMessages[k]._id # clientMessages[l]._id

\* ------------------------------------------------------------------ C26

\* No fetch of the conversation with p and no send to p is in flight.
NoRequestPendingFor(p) ==
    /\ \A call \in loading : call.userId # p
    /\ \A call \in sending : call.receiverId # p

\* C26: in every state in which a conversation is open and no request for
\* its peer is pending, every entry of the message list is a message
\* between the user and that peer -- the response of a request made for a
\* conversation the user has left is discarded.
C26_StaleResponseDiscarded ==
    (selectedUser # Null /\ NoRequestPendingFor(selectedUser)) =>
        \A k \in 1..Len(clientMessages) :
            {clientMessages[k].senderId, clientMessages[k].receiverId} = {Me, selectedUser}

\* ------------------------------------------------------------------ C27

\* C27: in every state of the client the confirmed entries of the message
\* list are in the order the store created them (a message's _id is its
\* creation order): an entry is never followed by one created before it.
C27_ListInCreationOrder ==
    \A k \in 1..Len(clientMessages), l \in 1..Len(clientMessages) :
        ( /\ k < l
          /\ clientMessages[k]._id \in MessageIds
          /\ clientMessages[l]._id \in MessageIds ) =>
            clientMessages[k]._id <= clientMessages[l]._id

\* ------------------------------------------------------------------ C28

\* `after` is `before` with read set on the unread entries whose receiver is
\* readBy, and every other entry as it was.
ReadFlagsFlipped(before, after, readBy) ==
    /\ Len(after) = Len(before)
    /\ \A k \in 1..Len(before) :
          after[k] = IF before[k].receiverId = readBy /\ ~before[k].read
                     THEN [before[k] EXCEPT !.read = TRUE]
                     ELSE before[k]

\* With a conversation open, the messagesRead listener flips the flags for
\* the open peer and leaves the list alone for any other reader.
MessagesReadOfOpenPeerOnly ==
    selectedUser # Null =>
        \A readBy \in Users :
            LET after == on_messagesRead(selectedUser, clientMessages, [readBy |-> readBy])
            IN  IF readBy = selectedUser
                THEN ReadFlagsFlipped(clientMessages, after, readBy)
                ELSE after = clientMessages

\* The step handles a "messagesRead" event.
MessagesReadHandled ==
    /\ inbox # <<>>
    /\ inbox' = Tail(inbox)
    /\ Head(inbox).event = "messagesRead"

\* C28: handling a messagesRead event whose readBy is the open peer sets
\* read on every entry of the list whose receiver is that peer and that was
\* unread, and changes no other entry; handling one whose readBy is not the
\* open peer leaves the list as it was.
C28_MessagesReadFlipsFlags ==
    /\ []MessagesReadOfOpenPeerOnly
    /\ [][ MessagesReadHandled =>
                IF Head(inbox).payload.readBy = selectedUser
                THEN ReadFlagsFlipped(clientMessages, clientMessages', selectedUser)
                ELSE clientMessages' = clientMessages ]_vars

\* A messagesRead event of the open peer waits to be handled; the list holds
\* an unread message sent to that peer and an unread message of that peer.
C28_Witness ==
    /\ inbox # <<>>
    /\ Head(inbox).event = "messagesRead"
    /\ Head(inbox).payload.readBy = selectedUser
    /\ \E k \in 1..Len(clientMessages), l \in 1..Len(clientMessages) :
          /\ clientMessages[k].receiverId = selectedUser /\ ~clientMessages[k].read
          /\ clientMessages[l].senderId = selectedUser /\ ~clientMessages[l].read

\* ------------------------------------------------------------------ C29

\* The step applies the response of the pin or unpin call in flight.
PinResponseApplied(call) ==
    /\ call \in pinning
    /\ pinning' = {}

\* C29: the step that issues a pin or unpin request, and the step in which
\* the request is answered, leave the message list and the pinned list as
\* they were; the step that applies a success response of a pin puts the
\* returned record at the head of the pinned list, before the entries it
\* had; that of an unpin takes the entries of that message out of the pinned
\* list; the step that applies a failure response changes neither list.
C29_PinIsNotOptimistic ==
    [][ /\ (pinning' # pinning /\ pinning' # {}) =>
              /\ clientMessages' = clientMessages
              /\ pinnedMessages' = pinnedMessages
        /\ \A call \in pinning :
              PinResponseApplied(call) =>
                  /\ (call.res.status = 200 /\ call.kind = "pin") =>
                        pinnedMessages' = << ToClient(call.res.body) >> \o pinnedMessages
                  /\ (call.res.status = 200 /\ call.kind = "unpin") =>
                        WithoutId(pinnedMessages, pinnedMessages', call.messageId)
                  /\ call.res.status # 200 =>
                        /\ clientMessages' = clientMessages
                        /\ pinnedMessages' = pinnedMessages ]_vars

\* The pin of a message was answered 200 and is not applied yet, while the
\* pinned list holds another message.
C29_Witness ==
    \E call \in pinning :
        /\ call.stage = "answered"
        /\ call.kind = "pin"
        /\ call.res.status = 200
        /\ Len(pinnedMessages) = 1
        /\ pinnedMessages[1]._id # call.messageId

\* ------------------------------------------------------------------ C30

\* C30: in every state of the client the pinned list holds each message id
\* at most once -- also after the client applied both the response of its
\* own pin and the messagePinned event of that pin, and after a pinned
\* message was pinned again.
C30_PinnedListHasNoDuplicates ==
    \A k \in 1..Len(pinnedMessages), l \in 1..Len(pinnedMessages) :
        k # l => pinnedMessages[k]._id # pinnedMessages[l]._id

\* ------------------------------------------------------------------ C31

\* Two collections hold the same documents, deletedFor read as a set.
SameStore(a, b) ==
    /\ Len(a) = Len(b)
    /\ \A i \in 1..Len(a) :
          /\ [a[i] EXCEPT !.deletedFor = <<>>] = [b[i] EXCEPT !.deletedFor = <<>>]
          /\ Range(a[i].deletedFor) = Range(b[i].deletedFor)

\* The handler of request r run in one piece on msgs.
Handled(msgs, r) ==
    IF r.op = "deleteForEveryone"
    THEN deleteMessageForEveryone(msgs, userSocketMap, r.userId, r.message._id)
    ELSE deleteMessageForMe(msgs, r.userId, r.message._id)

\* The effect of request r is in msgs.
EffectIn(msgs, r) ==
    IF r.op = "deleteForEveryone"
    THEN msgs[r.message._id].deletedForEveryone
    ELSE r.userId \in Range(msgs[r.message._id].deletedFor)

\* Two running requests of different actors, both of which would pass their
\* checks on the store as it is: their saves in either order leave what the
\* two handlers leave when run one after the other, in either order, and
\* the effects of both.
ConcurrentDeletesCommute ==
    \A r1 \in running, r2 \in running :
        ( /\ r1.userId # r2.userId
          /\ Handled(messages, r1).res.status = 200
          /\ Handled(messages, r2).res.status = 200 ) =>
            LET oneAfterTheOther == Handled(Handled(messages, r1).messages, r2).messages
                otherOrder == Handled(Handled(messages, r2).messages, r1).messages
                interleaved == Saved(Saved(messages, r1), r2)
            IN  /\ SameStore(interleaved, oneAfterTheOther)
                /\ SameStore(interleaved, otherOrder)
                /\ EffectIn(interleaved, r1)
                /\ EffectIn(interleaved, r2)

\* A mark-read of any viewer and peer run between the read and the save of a
\* running delete request: the store is the same as with the mark-read run
\* after the save, and as with both handlers run one after the other.
MarkReadCommutesWithDelete ==
    \A r \in running, viewer \in Users, peer \in Users :
        Handled(messages, r).res.status = 200 =>
            LET marked == markMessagesAsRead(messages, userSocketMap, viewer, peer).messages
                between == Saved(marked, r)
                after == markMessagesAsRead(Saved(messages, r), userSocketMap, viewer, peer).messages
            IN  /\ between = after
                /\ SameStore(between, Handled(marked, r).messages)
                /\ EffectIn(between, r)
                /\ \A i \in 1..Len(marked) : marked[i].read => between[i].read

\* C31: whatever ran between the read and the save of a delete request, the
\* save leaves the store as the whole handler run at that moment would
\* (no update made in between is lost); and two such requests of different
\* actors, or one and a mark-read, leave the same store in every order of
\* their steps as when run one after the other.
C31_ConcurrentMutationsCommute ==
    /\ [](ConcurrentDeletesCommute /\ MarkReadCommutesWithDelete)
    /\ [][ \A r \in running :
              ( /\ running' = running \ {r}
                /\ Handled(messages, r).res.status = 200 ) =>
                    /\ SameStore(messages', Handled(messages, r).messages)
                    /\ EffectIn(messages', r) ]_vars

\* Two delete requests of different actors for the same message, a delete
\* for me and a delete for everyone, have both read it and neither has saved.
C31_Witness ==
    \E r1 \in running, r2 \in running :
        /\ r1.userId # r2.userId
        /\ r1.message._id = r2.message._id
        /\ r1.op = "deleteForMe"
        /\ r2.op = "deleteForEveryone"
        /\ Handled(messages, r1).res.status = 200

\* ------------------------------------------------------------------ C32

\* A mark-read of any viewer and peer on the store as it is: the collection
\* keeps its length; a message from the peer to the viewer differs at most
\* in its read flag, which is then true; every other message (the opposite
\* direction, a third user's) is left as it was.
MarkReadFrame ==
    \A viewer \in Users, peer \in Users :
        LET o == markMessagesAsRead(messages, userSocketMap, viewer, peer)
        IN  /\ Len(o.messages) = Len(messages)
            /\ \A i \in 1..Len(messages) :
                  IF messages[i].senderId = peer /\ messages[i].receiverId = viewer
                  THEN o.messages[i] = [messages[i] EXCEPT !.read = TRUE]
                  ELSE o.messages[i] = messages[i]

\* C32: markRead(viewer, peer) changes only messages sent by the peer to the
\* viewer, and of those only the read flag; a step of the store that sets a
\* read flag leaves every message that is not from that sender to that
\* receiver exactly as it was.
C32_MarkReadChangesOnlyPeerToViewer ==
    /\ []MarkReadFrame
    /\ [][ \A i \in 1..Len(messages) :
              ( /\ Len(messages') = Len(messages)
                /\ ~messages[i].read
                /\ messages'[i].read ) =>
                  \A j \in 1..Len(messages) :
                      IF /\ messages[j].senderId = messages[i].senderId
                         /\ messages[j].receiverId = messages[i].receiverId
                      THEN messages'[j] = [messages[j] EXCEPT !.read = TRUE]
                      ELSE messages'[j] = messages[j] ]_vars

\* A message read by its receiver while an older message to the same
\* receiver from a third user, stored before it, is still unread.
C32_Witness ==
    \E i \in 1..Len(messages), k \in 1..Len(messages) :
        /\ k < i
        /\ messages[i].read
        /\ messages[k].receiverId = messages[i].receiverId
        /\ messages[k].senderId # messages[i].senderId
        /\ ~messages[k].read

\* ------------------------------------------------------------------ C33

\* C33: a mark-read request that fails leaves the peer's unread counter at
\* the value it had before the call site reset it to zero: for the chat list
\* as it is, opening the conversation with any peer, or clicking into the
\* open conversation, followed by the rejection of the PATCH, gives the chat
\* list back.
C33_FailedMarkReadRestoresCounter ==
    /\ \A p \in Peers :
          markMessagesAsRead_rejected(updateUnreadCount(chats, p, FALSE)) = chats
    /\ selectedUser # Null =>
          markMessagesAsRead_rejected(
              handleChatContainerClick(selectedUser, marking, chats).chats) = chats

\* ------------------------------------------------------------------ C34

\* An "unreadCountUpdate" whose payload has no senderId is the next event
\* the client handles.
NoSenderUpdateIsNext ==
    /\ inbox # <<>>
    /\ Head(inbox).event = "unreadCountUpdate"
    /\ "senderId" \notin DOMAIN Head(inbox).payload

\* C34: handling an unreadCountUpdate without senderId (the emit with no
\* argument that markMessagesAsRead sends to the sender of the messages)
\* is defined and leaves every counter of the chat list, the open
\* conversation and its list as they are.
C34_UpdateWithoutSenderChangesNothing ==
    /\ [](handleUnreadUpdate(selectedUser, chats, NoPayload) = chats)
    /\ [][ (NoSenderUpdateIsNext /\ inbox' = Tail(inbox)) =>
              /\ chats' = chats
              /\ selectedUser' = selectedUser
              /\ clientMessages' = clientMessages ]_vars

\* A peer marked the client's message read and the unreadCountUpdate without
\* senderId waits to be handled, while the chat list shows an unread message
\* and no conversation or another peer's conversation is open.
C34_Witness ==
    /\ NoSenderUpdateIsNext
    /\ \E c \in DOMAIN chats : chats[c] > 0 /\ c # selectedUser

\* ------------------------------------------------------------------ C35

\* An "unreadCountUpdate" of sender s is the next event the client handles:
\* the "newMessage" emitted with it was handled before it.
UpdateOfSenderIsNext(s) ==
    /\ inbox # <<>>
    /\ Head(inbox).event = "unreadCountUpdate"
    /\ "senderId" \in DOMAIN Head(inbox).payload
    /\ Head(inbox).payload.senderId = s

\* The id of the last message s sent to the client: the one whose events
\* are being handled (the inbox holds the events of one message at a time).
LastFrom(s) ==
    LET from == { i \in 1..Len(messages) :
                    messages[i].senderId = s /\ messages[i].receiverId = Me }
    IN  CHOOSE i \in from : \A j \in from : j <= i

\* The user opens another conversation while the message of s that the
\* listener appended to the open one has its unreadCountUpdate still to be
\* handled: handled next, the update does not count the message as well.
\* (No load is answered, so a message of s in the list was appended by the
\* listener.)
AppendedIsNotCountedAfterSwitch ==
    \A s \in Peers :
        ( /\ UpdateOfSenderIsNext(s)
          /\ LastFrom(s) \in Ids(clientMessages)
          /\ selectedUser' # selectedUser ) =>
              handleUnreadUpdate(selectedUser', chats', Head(inbox).payload) = chats'

\* C35: for a message delivered to the client exactly one of the two
\* happens, it is appended to the list of the open conversation or the
\* counter of its sender goes up by one.  When the client handles its
\* unreadCountUpdate, the message is not both in the list and counted, and
\* when no conversation was ever opened (so the message was not appended) it
\* is counted; and a message that was appended is not counted when the user
\* opens another conversation between the two events.
C35_DeliveredMessageShownOrCounted ==
    /\ [][ \A s \in Peers :
              (UpdateOfSenderIsNext(s) /\ inbox' = Tail(inbox)) =>
                  LET shown == LastFrom(s) \in Ids(clientMessages')
                      counted == /\ s \in DOMAIN chats'
                                 /\ chats'[s] = (IF s \in DOMAIN chats THEN chats[s] ELSE 0) + 1
                  IN  /\ ~(shown /\ counted)
                      /\ selectedUser = Null => counted ]_vars
    /\ [][AppendedIsNotCountedAfterSwitch]_vars

\* ------------------------------------------------------------------ C36

\* The client is connected, has handled every event and has no request in
\* flight.
Quiescent ==
    /\ Me \in userSocketMap
    /\ inbox = <<>>
    /\ sending = {} /\ marking = {} /\ loading = {} /\ fetching = {}
    /\ deleting = {} /\ pinning = {} /\ running = {}

\* The chat list cs lists the partners of the client in msgs, each with the
\* unread count the store returns for it.
InSync(cs, msgs) == cs = getChatPartners(msgs, Me)

RECURSIVE AfterEvents(_, _)
\* The chat list after the client handled the events, in order: only the
\* listener of "unreadCountUpdate" sets counters.
AfterEvents(cs, events) ==
    IF events = <<>> THEN cs
    ELSE AfterEvents(IF Head(events).event = "unreadCountUpdate"
                     THEN handleUnreadUpdate(selectedUser, cs, Head(events).payload)
                     ELSE cs,
                     Tail(events))

\* A peer's delete-for-everyone on a client in sync: once the client handled
\* its event, the counters are those of the store.
InSyncAfterDeleteForEveryone ==
    \A userId \in Peers, messageId \in 1..Len(messages) :
        LET o == deleteMessageForEveryone(messages, userSocketMap, userId, messageId)
        IN  InSync(AfterEvents(chats, ToMe(o.emitted)), o.messages)

\* A peer's message to the client, likewise.
InSyncAfterSend ==
    \A senderId \in Peers :
        LET o == sendMessage(messages, userSocketMap, senderId, Me, "hi", "", TRUE)
        IN  InSync(AfterEvents(chats, ToMe(o.emitted)), o.messages)

\* C36: a connected client with nothing to handle and nothing in flight
\* whose counters are those of the store still has the counters of the
\* store after a peer sent it a message, or deleted one for everyone, and
\* the client handled the events of that request.
C36_CountersFollowTheStore ==
    (Quiescent /\ InSync(chats, messages)) =>
        (InSyncAfterDeleteForEveryone /\ InSyncAfterSend)

\* ------------------------------------------------------------------ C37

\* What event e says is stored in msgs.
Persisted(e, msgs) ==
    IF e.event = "newMessage"
    THEN /\ e.payload._id <= Len(msgs)
         /\ msgs[e.payload._id].senderId = e.payload.senderId
         /\ msgs[e.payload._id].receiverId = e.to
         /\ msgs[e.payload._id].text = e.payload.text
    ELSE IF e.event = "unreadCountUpdate"
    THEN "senderId" \in DOMAIN e.payload =>
            \E i \in 1..Len(msgs) :
                msgs[i].senderId = e.payload.senderId /\ msgs[i].receiverId = e.to
    ELSE IF e.event = "messageDeletedForEveryone"
    THEN /\ e.payload <= Len(msgs)
         /\ msgs[e.payload].deletedForEveryone
    ELSE IF e.event = "messagesRead"
    THEN \E i \in 1..Len(msgs) :
            /\ msgs[i].senderId = e.to
            /\ msgs[i].receiverId = e.payload.readBy
            /\ msgs[i].read
    ELSE TRUE

\* Every event a handler emits on the store as it is, with every user
\* connected, is stored in the collection the handler leaves.
HandlersEmitWhatTheySaved ==
    /\ \A senderId \in Users, receiverId \in Users, p \in SentPayloads :
          LET o == sendMessage(messages, Users, senderId, receiverId, p.text, p.image, p.uploadOk)
          IN  \A k \in 1..Len(o.emitted) : Persisted(o.emitted[k], o.messages)
    /\ \A userId \in Users, messageId \in MessageIds :
          LET o == deleteMessageForEveryone(messages, Users, userId, messageId)
          IN  \A k \in 1..Len(o.emitted) : Persisted(o.emitted[k], o.messages)
    /\ \A myId \in Users, userToChatId \in Users :
          LET o == markMessagesAsRead(messages, Users, myId, userToChatId)
          IN  \A k \in 1..Len(o.emitted) : Persisted(o.emitted[k], o.messages)

\* C37: what an event says is stored when the event is emitted: every event
\* waiting at the client (new message, unread count, deleted for everyone,
\* messages read) is stored in the collection, so a query the client makes
\* on handling it finds the state after the cause of the event.
C37_EventsDescribePersistedState ==
    /\ HandlersEmitWhatTheySaved
    /\ \A k \in 1..Len(inbox) : Persisted(inbox[k], messages)

\* A peer read the client's message and the messagesRead event waits to be
\* handled, while a message the client sent to that peer since is stored
\* unread.
C37_Witness ==
    /\ Len(inbox) = 2
    /\ inbox[1].event = "messagesRead"
    /\ inbox[2].event = "unreadCountUpdate"
    /\ \E i \in 1..Len(messages) :
          /\ messages[i].senderId = Me
          /\ messages[i].receiverId = inbox[1].payload.readBy
          /\ ~messages[i].read

\* ------------------------------------------------------------------ C38

\* The step applies the answer of a load of the conversation.
FetchApplied == loading # {} /\ loading' = {}

\* C38: in a step that neither opens another conversation nor applies a
\* fetch, an entry of the list that shows read = true and is still in the
\* list after the step still shows read = true -- the step that applies the
\* response or the failure of a send included.
C38_ReadFlagStaysSet ==
    [][ (selectedUser' = selectedUser /\ ~FetchApplied) =>
          \A i \in 1..Len(clientMessages), j \in 1..Len(clientMessages') :
              ( /\ clientMessages[i]._id = clientMessages'[j]._id
                /\ clientMessages[i].read ) => clientMessages'[j].read ]_vars

\* ------------------------------------------------------------------ C39

\* No value occurs twice in the sequence.
NoRepeat(seq) == \A a \in 1..Len(seq), b \in 1..Len(seq) : seq[a] = seq[b] => a = b

\* C39: deletedFor of every stored message holds each user id at most once,
\* and of the delete-for-me requests of one actor for one message that have
\* read the message at most one is past the already-deleted check (the
\* others answer 400).
C39_DeletedForHasNoDuplicates ==
    /\ \A i \in 1..Len(messages) : NoRepeat(messages[i].deletedFor)
    /\ \A r1 \in running, r2 \in running :
          ( /\ r1.op = "deleteForMe"
            /\ r2.op = "deleteForMe"
            /\ r1.userId = r2.userId
            /\ r1.message._id = r2.message._id ) => r1 = r2

\* ------------------------------------------------------------------ C40

\* C40: the step that handles the unreadCountUpdate of a sender who is not
\* the open conversation and is not in the chat list leaves the chat list
\* with that sender in it and one unread message to its name.
C40_FirstMessageIsCounted ==
    [][ \A s \in Peers :
          ( /\ UpdateOfSenderIsNext(s)
            /\ inbox' = Tail(inbox)
            /\ s # selectedUser
            /\ s \notin DOMAIN chats ) =>
                /\ s \in DOMAIN chats'
                /\ chats'[s] = 1 ]_vars

====
